---- MODULE Spec2Model ----
(***************************************************************************)
(* The fuzzy LRU response cache and the answer orchestration of            *)
(* MinecraftRAGPipeline (src/src/rag/pipeline.py) and DirectXAIPipeline    *)
(* (src/src/xai/pipeline.py).                                              *)
(*                                                                         *)
(* A Python str is a sequence of one-character strings.  The OrderedDict   *)
(* response_cache is a sequence of entries, oldest first: position 1 is    *)
(* what popitem(last=False) removes, the last position is where an         *)
(* assignment to a new key lands.  None is the empty sequence and a value  *)
(* v returned where None is possible is <<v>>.                             *)
(***************************************************************************)
EXTENDS Integers, Sequences, FiniteSets, TLC

VARIABLES pipeline, response_cache, now, last, tasks, running, prompt_template,
          qa_cache, webhooks

vars == <<pipeline, response_cache, now, last, tasks, running, prompt_template,
          qa_cache, webhooks>>

(***************************************************************************)
(* Bounds of the model.                                                    *)
(***************************************************************************)
\* cache_max_size is 50 in both constructors (pipeline.py:79); the model
\* runs the same code with a small capacity so that overflow happens.
cache_max_size == 2

\* time.time() is read from a clock that takes the values 0..MaxTime.
MaxTime == 1

\* the number of process_and_respond tasks that can be in flight together
MaxTasks == 2

(***************************************************************************)
(* The queries of the model, and hashlib.md5(...).hexdigest() on every     *)
(* string the model hashes (the digests are the real ones).                *)
(***************************************************************************)
QueryA == "craft a diamond sword"

QueryAVariant == "craft a Diamond sword "

QueryB == "how to smelt iron"

QueryC == "how do I brew a potion"

QueryH == "3e2992c982681fcdc8f73e8ccf8a571c"

QueryHVariant == "3e2992c982681fcdc8f73e8ccf8a57"

Queries == {QueryA, QueryAVariant, QueryB, QueryC, QueryH, QueryHVariant}

\* The characters of every string the model normalizes or compares: the
\* queries, their normalized forms and their keys.
chars ==
  ("craft a diamond sword"
     :> <<"c","r","a","f","t"," ","a"," ","d","i","a","m","o","n","d"," ","s","w","o","r","d">>)
  @@
  ("craft a Diamond sword "
     :> <<"c","r","a","f","t"," ","a"," ","D","i","a","m","o","n","d"," ","s","w","o","r","d"," ">>)
  @@
  ("how to smelt iron"
     :> <<"h","o","w"," ","t","o"," ","s","m","e","l","t"," ","i","r","o","n">>)
  @@
  ("how do I brew a potion"
     :> <<"h","o","w"," ","d","o"," ","I"," ","b","r","e","w"," ","a"," ","p","o","t","i","o","n">>)
  @@
  ("3e2992c982681fcdc8f73e8ccf8a571c"
     :> <<"3","e","2","9","9","2","c","9","8","2","6","8","1","f","c","d","c","8","f","7","3","e","8","c","c","f","8","a","5","7","1","c">>)
  @@
  ("3e2992c982681fcdc8f73e8ccf8a57"
     :> <<"3","e","2","9","9","2","c","9","8","2","6","8","1","f","c","d","c","8","f","7","3","e","8","c","c","f","8","a","5","7">>)
  @@
  ("how do i brew a potion"
     :> <<"h","o","w"," ","d","o"," ","i"," ","b","r","e","w"," ","a"," ","p","o","t","i","o","n">>)
  @@
  ("928bc0cc61f6861149198fb0390d14ec"
     :> <<"9","2","8","b","c","0","c","c","6","1","f","6","8","6","1","1","4","9","1","9","8","f","b","0","3","9","0","d","1","4","e","c">>)
  @@
  ("c6b6ffdcf4e4a66b700c308bc02c6e71"
     :> <<"c","6","b","6","f","f","d","c","f","4","e","4","a","6","6","b","7","0","0","c","3","0","8","b","c","0","2","c","6","e","7","1">>)
  @@
  ("4bce50a7b2f77c7d1427a866fe997533"
     :> <<"4","b","c","e","5","0","a","7","b","2","f","7","7","c","7","d","1","4","2","7","a","8","6","6","f","e","9","9","7","5","3","3">>)
  @@
  ("883a64e783151a69292df76c692726a7"
     :> <<"8","8","3","a","6","4","e","7","8","3","1","5","1","a","6","9","2","9","2","d","f","7","6","c","6","9","2","7","2","6","a","7">>)

\* hashlib.md5(s.encode()).hexdigest() for every string s the model hashes:
\* the normalized queries and the keys.
MD5Table ==
  ("craft a diamond sword"
     :> "3e2992c982681fcdc8f73e8ccf8a571c")
  @@
  ("craft a Diamond sword "
     :> "ca32b455406782dfbee984c02a89debe")
  @@
  ("how do I brew a potion"
     :> "46083db147bdb81168769f7df2e40fce")
  @@
  ("how to smelt iron"
     :> "928bc0cc61f6861149198fb0390d14ec")
  @@
  ("how do i brew a potion"
     :> "c6b6ffdcf4e4a66b700c308bc02c6e71")
  @@
  ("3e2992c982681fcdc8f73e8ccf8a571c"
     :> "4bce50a7b2f77c7d1427a866fe997533")
  @@
  ("3e2992c982681fcdc8f73e8ccf8a57"
     :> "883a64e783151a69292df76c692726a7")
  @@
  ("928bc0cc61f6861149198fb0390d14ec"
     :> "04e7dcfc1a22aca185c5f3f5386d6fa9")
  @@
  ("c6b6ffdcf4e4a66b700c308bc02c6e71"
     :> "41f94cdba765b1479300e4648ef01bfa")
  @@
  ("4bce50a7b2f77c7d1427a866fe997533"
     :> "1b61c79e3576d65ea48c4e5c6240860d")
  @@
  ("883a64e783151a69292df76c692726a7"
     :> "b09c94d4cb803fc9a6ecf67bed7585c6")

(***************************************************************************)
(* str.lower() and str.strip() on ASCII text.                              *)
(***************************************************************************)
UpperCase ==
  <<"A","B","C","D","E","F","G","H","I","J","K","L","M",
    "N","O","P","Q","R","S","T","U","V","W","X","Y","Z">>

LowerCase ==
  <<"a","b","c","d","e","f","g","h","i","j","k","l","m",
    "n","o","p","q","r","s","t","u","v","w","x","y","z">>

Whitespace == {" ", "\t", "\n", "\r"}

lower_char(c) ==
  IF \E i \in 1..26 : UpperCase[i] = c
  THEN LowerCase[CHOOSE i \in 1..26 : UpperCase[i] = c]
  ELSE c

lower_chars(cs) == [i \in 1..Len(cs) |-> lower_char(cs[i])]

RECURSIVE lstrip_chars(_)
lstrip_chars(cs) ==
  IF cs # <<>> /\ Head(cs) \in Whitespace THEN lstrip_chars(Tail(cs)) ELSE cs

RECURSIVE rstrip_chars(_)
rstrip_chars(cs) ==
  IF cs # <<>> /\ cs[Len(cs)] \in Whitespace
  THEN rstrip_chars(SubSeq(cs, 1, Len(cs) - 1))
  ELSE cs

strip_chars(cs) == rstrip_chars(lstrip_chars(cs))

\* the string with these characters
text(cs) == CHOOSE s \in DOMAIN chars : chars[s] = cs

\* s.lower().strip(), computed once for every string
NormalizeTable ==
  [s \in DOMAIN chars |-> text(strip_chars(lower_chars(chars[s])))] @@ <<>>

\* query.lower().strip()
normalize(query) == NormalizeTable[query]

md5_hexdigest(s) == MD5Table[s]

\* A faulty variant of _get_cache_key: the digest of the query as given.
_get_cache_key_raw(query) == md5_hexdigest(query)

\* _get_cache_key: the digest of the lower-cased, stripped query.
_get_cache_key(query) == md5_hexdigest(normalize(query))

(***************************************************************************)
(* difflib.SequenceMatcher(None, a, b).ratio() for strings shorter than    *)
(* 200 characters (no junk, no popular-element heuristic).  Indices are    *)
(* Python's: 0-based, half-open [alo, ahi) and [blo, bhi).                 *)
(***************************************************************************)
\* Length of the common run of a[i:ahi] and b[j:bhi] starting at (i, j).
RECURSIVE common_run(_, _, _, _, _, _)
common_run(a, b, i, ahi, j, bhi) ==
  IF i < ahi /\ j < bhi /\ a[i + 1] = b[j + 1]
  THEN 1 + common_run(a, b, i + 1, ahi, j + 1, bhi)
  ELSE 0

\* The blocks <<i, j, k>> with a[i:i+k] = b[j:j+k], k > 0 the longest for
\* its start, inside a[alo:ahi] and b[blo:bhi].
common_blocks(a, b, alo, ahi, blo, bhi) ==
  {m \in {<<i, j, common_run(a, b, i, ahi, j, bhi)>> :
            i \in alo..(ahi - 1), j \in blo..(bhi - 1)} : m[3] > 0}

\* m is chosen before n: it is longer, or as long and starts earlier in a,
\* or as long, starts at the same place in a and not later in b.
precedes(m, n) ==
  \/ m[3] > n[3]
  \/ m[3] = n[3] /\ m[1] < n[1]
  \/ m[3] = n[3] /\ m[1] = n[1] /\ m[2] <= n[2]

first_block(blocks, alo, blo) ==
  IF blocks = {} THEN <<alo, blo, 0>>
  ELSE CHOOSE m \in blocks : \A n \in blocks : precedes(m, n)

\* The longest matching block <<i, j, k>>; of the longest, the one starting
\* earliest in a, and of those the one starting earliest in b.
find_longest_match(a, b, alo, ahi, blo, bhi) ==
  first_block(common_blocks(a, b, alo, ahi, blo, bhi), alo, blo)

\* Sum of the sizes of get_matching_blocks(): the longest block m, then the
\* same to its left and to its right.
RECURSIVE matching_size(_, _, _, _, _, _)
RECURSIVE matching_size_around(_, _, _, _, _, _, _)
matching_size_around(a, b, alo, ahi, blo, bhi, m) ==
  IF m[3] = 0 THEN 0
  ELSE m[3]
       + matching_size(a, b, alo, m[1], blo, m[2])
       + matching_size(a, b, m[1] + m[3], ahi, m[2] + m[3], bhi)

matching_size(a, b, alo, ahi, blo, bhi) ==
  IF alo >= ahi \/ blo >= bhi THEN 0
  ELSE matching_size_around(a, b, alo, ahi, blo, bhi,
                            find_longest_match(a, b, alo, ahi, blo, bhi))

\* cache_similarity_threshold = 0.85, as the fraction ThresholdNum/ThresholdDen
ThresholdNum == 85

ThresholdDen == 100

\* ratio() >= cache_similarity_threshold, where ratio() is
\* 2.0 * matches / (len(a) + len(b)), and 1.0 for two empty strings.
ratio_reaches_threshold(a, b) ==
  IF Len(a) + Len(b) = 0 THEN TRUE
  ELSE 2 * matching_size(a, b, 0, Len(a), 0, Len(b)) * ThresholdDen
         >= ThresholdNum * (Len(a) + Len(b))

NormalizedQueries == {normalize(q) : q \in Queries}

Keys == {md5_hexdigest(n) : n \in NormalizedQueries}

\* cached_query.lower(), computed once for every key
LowerTable ==
  [s \in Keys |-> text(lower_chars(chars[s]))] @@ <<>>

lower(s) == LowerTable[s]

\* Whether the ratio reaches the threshold, computed once for each
\* normalized query against each lower-cased key and each normalized query.
SimilarTable ==
  [p \in NormalizedQueries \X ({lower(k) : k \in Keys} \cup NormalizedQueries) |->
     ratio_reaches_threshold(chars[p[1]], chars[p[2]])] @@ <<>>

\* similarity >= self.cache_similarity_threshold for
\* SequenceMatcher(None, a, b).ratio()
similar(a, b) == SimilarTable[<<a, b>>]

(***************************************************************************)
(* The response cache: an OrderedDict from key to                          *)
(* {"query", "response", "timestamp"}, as a sequence of entries.           *)
(***************************************************************************)
Entry(key, query, response, timestamp) ==
  [key |-> key, query |-> query, response |-> response, timestamp |-> timestamp]

has_key(cache, key) == \E i \in 1..Len(cache) : cache[i].key = key

\* self.response_cache[key], for a key that is present
item(cache, key) == cache[CHOOSE i \in 1..Len(cache) : cache[i].key = key]

\* self.response_cache.pop(key, None)
pop(cache, key) == SelectSeq(cache, LAMBDA e : e.key # key)

\* _find_similar_cached_query: the first key, in the order of the dict,
\* whose ratio with the normalized query reaches the threshold; None if none.
RECURSIVE _find_similar_cached_query(_, _)
_find_similar_cached_query(cache, query) ==
  IF cache = <<>> THEN <<>>
  ELSE IF similar(normalize(query), lower(Head(cache).key))
  THEN <<Head(cache).key>>
  ELSE _find_similar_cached_query(Tail(cache), query)

\* while len(self.response_cache) > self.cache_max_size:
\*     self.response_cache.popitem(last=False)
\* Two faulty variants of that loop, for comparison: no eviction at all, and
\* eviction from the newest end (popitem(last=True)).
evict_nothing(cache) == cache

evict_newest(cache) ==
  IF Len(cache) > cache_max_size THEN SubSeq(cache, 1, cache_max_size) ELSE cache

RECURSIVE evict(_)
evict(cache) ==
  IF Len(cache) > cache_max_size THEN evict(Tail(cache)) ELSE cache

\* _cache_response: the dict after the call.
_cache_response(cache, query, response, timestamp) ==
  LET cache_key == _get_cache_key(query)
  IN  evict(Append(pop(cache, cache_key),
                   Entry(cache_key, query, response, timestamp)))

\* _get_cached_response: what the call does, "return" with None (<<>>) or a
\* response (<<r>>), or "raise" when response_cache[cache_key] has no such key.
cached_item_response(cache, similar_query) ==
  IF similar_query # <<>>
  THEN LET cache_key == _get_cache_key(similar_query[1])
       IN  IF has_key(cache, cache_key)
           THEN [outcome |-> "return", value |-> <<item(cache, cache_key).response>>]
           ELSE [outcome |-> "raise", value |-> <<>>]
  ELSE [outcome |-> "return", value |-> <<>>]

_get_cached_response(cache, query) ==
  cached_item_response(cache, _find_similar_cached_query(cache, query))

\* A faulty variant of what _get_cached_response leaves of the dict: a hit
\* takes its entry out.
dict_after_get_cached_response_popping(cache, query) ==
  IF _get_cached_response(cache, query).value # <<>>
  THEN pop(cache, _get_cache_key(_find_similar_cached_query(cache, query)[1]))
  ELSE cache

\* the dict after _get_cached_response: it is read with keys() and with
\* [cache_key], and written nowhere
dict_after_get_cached_response(cache, query) == cache

\* A faulty variant of clear_cache: the newest entry stays.
clear_cache_keeps_newest(cache) ==
  IF cache = <<>> THEN <<>> ELSE <<cache[Len(cache)]>>

\* clear_cache
clear_cache(cache) == <<>>

(***************************************************************************)
(* Retrieval and generation.  A distance and a score are in hundredths.    *)
(* The content of a passage is modelled by its number of characters, a     *)
(* title by a string whose number of characters title_length gives.        *)
(***************************************************************************)
\* one passage of what collection.query returns: results["documents"][0][i],
\* results["metadatas"][0][i] and results["distances"][0][i]
Hit(title, distance, content) ==
  [title |-> title, distance |-> distance, content |-> content]

Doc(title, content, score) ==
  [content |-> content, title |-> title, url |-> title, score |-> score]

\* MinecraftVectorDB.search, given what collection.query returns (it returns
\* the distances): the same passages in the same order, score = 1 - distance.
search(hits) ==
  [i \in 1..Len(hits) |-> Doc(hits[i].title, hits[i].content, 100 - hits[i].distance)]

\* what collection.query returns to answer_question, by increasing distance
\* (top_k = 2 passages at most)
QueryResults ==
  { <<>>,
    <<Hit("Diamond", 5, 300)>>,
    <<Hit("Sword", 30, 1900), Hit("Iron Ingot", 70, 600)>> }

\* what vector_db.search returns, when it returns
SearchResults == {search(hits) : hits \in QueryResults}

\* the gateway call: it raises, or returns results
GatewayOutcomes ==
  {[raises |-> TRUE, results |-> <<>>]}
    \cup {[raises |-> FALSE, results |-> r] : r \in SearchResults}

\* similarity = 1 - result.get("score", 1.0); if similarity > 0.1
is_similar(result) == 100 - result.score > 10

\* A faulty variant of retrieve_context: no cap on the filtered results.
retrieve_context_uncapped(results) == SelectSeq(results, is_similar)

\* retrieve_context, given what the search returned: the results that pass
\* the filter, the first three of them.
retrieve_context(results) ==
  LET filtered_results == SelectSeq(results, is_similar)
  IN  SubSeq(filtered_results, 1, IF Len(filtered_results) < 3 THEN Len(filtered_results) ELSE 3)

\* len(doc["title"])
title_length ==
  "Sword" :> 5 @@ "Diamond" :> 7 @@ "Iron Ingot" :> 10

\* max_context_length, and the least remaining room a cut block is added for
max_context_length == 2000

min_remaining == 200

\* len(f"[Source {i + 1}: {doc['title']}]\n{doc['content']}"), position being
\* i + 1 (one digit: context_docs has three passages at most)
doc_content_length(position, doc) ==
  8 + 1 + 2 + title_length[doc.title] + 2 + doc.content

\* one element of context_parts: the position of the passage it was made
\* from, its number of characters, and whether it was cut and given "..."
Part(source, length, truncated) ==
  [source |-> source, length |-> length, truncated |-> truncated]

RECURSIVE pack(_, _, _, _)
\* A faulty variant of the loop of build_prompt: after a block that
\* overflows and is left out, the loop goes on to the next passage.
pack_skips_overflow(context_docs, position, context_parts, total_length) ==
  IF position > Len(context_docs)
  THEN context_parts
  ELSE IF total_length + doc_content_length(position, context_docs[position]) > max_context_length
       THEN IF max_context_length - total_length > min_remaining
            THEN Append(context_parts,
                        Part(position, (max_context_length - total_length) + 3, TRUE))
            ELSE pack(context_docs, position + 1, context_parts, total_length)
       ELSE pack(context_docs, position + 1,
                 Append(context_parts,
                        Part(position, doc_content_length(position, context_docs[position]), FALSE)),
                 total_length + doc_content_length(position, context_docs[position]))

\* A faulty variant of the loop of build_prompt: the block that overflows is
\* cut and added whatever room remains.
pack_any_remaining(context_docs, position, context_parts, total_length) ==
  IF position > Len(context_docs)
  THEN context_parts
  ELSE IF total_length + doc_content_length(position, context_docs[position]) > max_context_length
       THEN Append(context_parts, Part(position, (max_context_length - total_length) + 3, TRUE))
       ELSE pack(context_docs, position + 1,
                 Append(context_parts,
                        Part(position, doc_content_length(position, context_docs[position]), FALSE)),
                 total_length + doc_content_length(position, context_docs[position]))

\* the loop of build_prompt from the passage at position on: context_parts
\* when it ends.  doc_content[:remaining] has remaining characters, the block
\* being longer than that, and "..." has three.
pack(context_docs, position, context_parts, total_length) ==
  IF position > Len(context_docs)
  THEN context_parts
  ELSE IF total_length + doc_content_length(position, context_docs[position]) > max_context_length
       THEN IF max_context_length - total_length > min_remaining
            THEN Append(context_parts,
                        Part(position, (max_context_length - total_length) + 3, TRUE))
            ELSE context_parts
       ELSE pack(context_docs, position + 1,
                 Append(context_parts,
                        Part(position, doc_content_length(position, context_docs[position]), FALSE)),
                 total_length + doc_content_length(position, context_docs[position]))

RECURSIVE sum_of_lengths(_)
sum_of_lengths(context_parts) ==
  IF context_parts = <<>> THEN 0
  ELSE Head(context_parts).length + sum_of_lengths(Tail(context_parts))

\* len("\n\n---\n\n".join(context_parts))
join_length(context_parts) ==
  IF context_parts = <<>> THEN 0
  ELSE sum_of_lengths(context_parts) + 7 * (Len(context_parts) - 1)

\* build_prompt: the template that is formatted, context_parts, and the
\* number of characters of the context that takes the place of {context}.
packed(template, context_parts) ==
  [template |-> template, context_parts |-> context_parts,
   context |-> join_length(context_parts)]

build_prompt(template, context_docs) == packed(template, pack(context_docs, 1, <<>>, 0))

\* the prompt of DirectXAIPipeline.answer_question: an f-string of its own
XaiPrompt == "You are a helpful Minecraft assistant for kids. Question: {query} ..."

xai_prompt == packed(XaiPrompt, <<>>)

\* The file at prompt_template_path when it is opened: missing, unreadable,
\* or a text (taken as stripped already).
MissingFile == [kind |-> "missing", text |-> ""]

UnreadableFile == [kind |-> "unreadable", text |-> ""]

TextFile(contents) == [kind |-> "text", text |-> contents]

TemplateFiles ==
  {MissingFile, UnreadableFile,
   TextFile("Template one: {context} {query}"), TextFile("Template two: {context} {query}")}

\* _get_default_prompt_template
DefaultTemplate == "You are a kind, playful Minecraft helper for kids. ... {context} ... {query} ..."

\* _load_prompt_template: the text of the file, or the default template when
\* open or read raises.
_load_prompt_template(file) ==
  IF file.kind = "text" THEN file.text ELSE DefaultTemplate

\* reload_prompt_template: self.prompt_template after it.  Its except clause
\* is never entered, _load_prompt_template raising nothing.
reload_prompt_template(template, file) == _load_prompt_template(file)

\* How the HTTP call of generate_response ends.
GeneratorOutcomes(p) ==
  IF p = "rag" THEN {"ok", "empty", "status", "timeout", "error"}
  ELSE {"ok", "empty", "nochoices", "status", "timeout", "error"}

GeneratorFailures == {"empty", "nochoices", "status", "timeout", "error"}

\* generate_response: the string it returns; it raises nothing.
generate_response(p, generator) ==
  CASE generator = "ok"        -> "generated answer"
    [] generator = "empty"     -> "I found some information but couldn't generate a complete answer. Please try rephrasing your question."
    [] generator = "nochoices" -> "Error: No response generated by x.ai"
    [] generator = "status"    -> IF p = "rag" THEN "Error generating response: 500"
                                  ELSE "Error generating response: 500 - body"
    [] generator = "timeout"   -> "The AI is taking too long to respond. Please try a simpler question or try again later."
    [] generator = "error"     -> IF p = "rag" THEN "Error connecting to LLM: e"
                                  ELSE "Error connecting to x.ai API: e"

AnswerPayload(answer, sources, context_used) ==
  [answer |-> answer, sources |-> sources, context_used |-> context_used]

NoInformation ==
  AnswerPayload("I couldn't find any relevant information in my knowledge base.", <<>>, 0)

format_sources(context_docs) ==
  [i \in 1..(IF Len(context_docs) < 3 THEN Len(context_docs) ELSE 3) |->
     [title |-> context_docs[i].title, url |-> context_docs[i].url,
      relevance |-> context_docs[i].score]]

\* The record of one call: how it ended ("return" or "raise"), what it
\* returned, the dict after it, how many gateway searches and generator calls
\* it made, and how the search and the generator call ended ("none" when
\* there was none); steps is the statements of answer_question that ran, in
\* the order they ran: "cache_check" (_get_cached_response), "search"
\* (vector_db.search), "select" (the filter and cap of retrieve_context),
\* "build_prompt", "generate" (generate_response) and "store"
\* (_cache_response).
Call(outcome, value, cache, searches, gateway, generations, generator) ==
  [outcome |-> outcome, value |-> value, cache |-> cache,
   searches |-> searches, gateway |-> gateway,
   generations |-> generations, generator |-> generator, steps |-> <<>>]

Ran(steps, call) == [call EXCEPT !.steps = steps]

\* Two faulty variants of MinecraftRAGPipeline.answer_question: the generator
\* is called also when retrieve_context returned nothing, and a generated
\* response is returned without being cached.
rag_answer_generates_always(cached_response, cache, query, gateway, generator, timestamp) ==
  LET context_docs == retrieve_context(gateway.results)
      response == AnswerPayload(generate_response("rag", generator),
                                format_sources(context_docs), Len(context_docs))
  IN  IF cached_response.outcome = "raise"
      THEN Call("raise", <<>>, cache, 0, "none", 0, "none")
      ELSE IF cached_response.value # <<>>
      THEN Call("return", cached_response.value, cache, 0, "none", 0, "none")
      ELSE IF gateway.raises
      THEN Call("raise", <<>>, cache, 1, "raises", 0, "none")
      ELSE Call("return", <<response>>,
                _cache_response(cache, query, response, timestamp),
                1, "ok", 1, generator)

rag_answer_uncached(cached_response, cache, query, gateway, generator, timestamp) ==
  LET context_docs == retrieve_context(gateway.results)
      response == AnswerPayload(generate_response("rag", generator),
                                format_sources(context_docs), Len(context_docs))
  IN  IF cached_response.outcome = "raise"
      THEN Call("raise", <<>>, cache, 0, "none", 0, "none")
      ELSE IF cached_response.value # <<>>
      THEN Call("return", cached_response.value, cache, 0, "none", 0, "none")
      ELSE IF gateway.raises
      THEN Call("raise", <<>>, cache, 1, "raises", 0, "none")
      ELSE IF context_docs = <<>>
      THEN Call("return", <<NoInformation>>,
                _cache_response(cache, query, NoInformation, timestamp),
                1, "ok", 0, "none")
      ELSE Call("return", <<response>>, cache, 1, "ok", 1, generator)

\* A faulty variant of MinecraftRAGPipeline.answer_question: a generation
\* that fails is tried once more before the response is cached.
rag_answer_retries(cached_response, cache, query, gateway, generator, timestamp) ==
  LET context_docs == retrieve_context(gateway.results)
      response == AnswerPayload(generate_response("rag", generator),
                                format_sources(context_docs), Len(context_docs))
  IN  IF cached_response.outcome = "raise"
      THEN Ran(<<"cache_check">>, Call("raise", <<>>, cache, 0, "none", 0, "none"))
      ELSE IF cached_response.value # <<>>
      THEN Ran(<<"cache_check">>,
               Call("return", cached_response.value, cache, 0, "none", 0, "none"))
      ELSE IF gateway.raises
      THEN Ran(<<"cache_check", "search">>,
               Call("raise", <<>>, cache, 1, "raises", 0, "none"))
      ELSE IF context_docs = <<>>
      THEN Ran(<<"cache_check", "search", "select", "store">>,
               Call("return", <<NoInformation>>,
                    _cache_response(cache, query, NoInformation, timestamp),
                    1, "ok", 0, "none"))
      ELSE IF generator \in GeneratorFailures
      THEN Ran(<<"cache_check", "search", "select", "build_prompt",
                 "generate", "generate", "store">>,
               Call("return", <<response>>,
                    _cache_response(cache, query, response, timestamp),
                    1, "ok", 2, generator))
      ELSE Ran(<<"cache_check", "search", "select", "build_prompt", "generate", "store">>,
               Call("return", <<response>>,
                    _cache_response(cache, query, response, timestamp),
                    1, "ok", 1, generator))

\* MinecraftRAGPipeline.answer_question, from the result of the cache check.
\* "if cached_response:" is a truth test; every cached response is a dict of
\* three keys, hence true.  build_prompt is taken with a well-formed template
\* (its format call returns); include_sources has its default, True.
rag_answer(cached_response, cache, query, gateway, generator, timestamp) ==
  LET context_docs == retrieve_context(gateway.results)
      response == AnswerPayload(generate_response("rag", generator),
                                format_sources(context_docs), Len(context_docs))
  IN  IF cached_response.outcome = "raise"
      THEN Ran(<<"cache_check">>, Call("raise", <<>>, cache, 0, "none", 0, "none"))
      ELSE IF cached_response.value # <<>>
      THEN Ran(<<"cache_check">>,
               Call("return", cached_response.value, cache, 0, "none", 0, "none"))
      ELSE IF gateway.raises
      THEN Ran(<<"cache_check", "search">>,
               Call("raise", <<>>, cache, 1, "raises", 0, "none"))
      ELSE IF context_docs = <<>>
      THEN Ran(<<"cache_check", "search", "select", "store">>,
               Call("return", <<NoInformation>>,
                    _cache_response(cache, query, NoInformation, timestamp),
                    1, "ok", 0, "none"))
      ELSE Ran(<<"cache_check", "search", "select", "build_prompt", "generate", "store">>,
               Call("return", <<response>>,
                    _cache_response(cache, query, response, timestamp),
                    1, "ok", 1, generator))

rag_answer_question(cache, query, gateway, generator, timestamp) ==
  rag_answer(_get_cached_response(cache, query),
             cache, query, gateway, generator, timestamp)

\* DirectXAIPipeline.answer_question, from the result of the cache check
xai_answer(cached_response, cache, query, generator, timestamp) ==
  LET response == AnswerPayload(generate_response("xai", generator), <<>>, 0)
  IN  IF cached_response.outcome = "raise"
      THEN Ran(<<"cache_check">>, Call("raise", <<>>, cache, 0, "none", 0, "none"))
      ELSE IF cached_response.value # <<>>
      THEN Ran(<<"cache_check">>,
               Call("return", cached_response.value, cache, 0, "none", 0, "none"))
      ELSE Ran(<<"cache_check", "generate", "store">>,
               Call("return", <<response>>,
                    _cache_response(cache, query, response, timestamp),
                    0, "none", 1, generator))

xai_answer_question(cache, query, generator, timestamp) ==
  xai_answer(_get_cached_response(cache, query), cache, query, generator, timestamp)

(***************************************************************************)
(* The state machine.  last is the most recent call: its operation and     *)
(* arguments, the dict before it, and its Call record without the dict;    *)
(* of a call that retrieves or builds a prompt also what collection.query  *)
(* returned (hits), what search returned (results), what retrieve_context  *)
(* returned (context_docs) and what build_prompt built (prompt, <<>> when  *)
(* it was not called).                                                     *)
(***************************************************************************)
\* responses handed to _cache_response directly
Responses ==
  { AnswerPayload("P1", <<>>, 0), AnswerPayload("P2", <<>>, 0) }

Last(op, query, response, before, call) ==
  [op |-> op, query |-> query, response |-> response, before |-> before,
   outcome |-> call.outcome, value |-> call.value,
   searches |-> call.searches, gateway |-> call.gateway,
   generations |-> call.generations, generator |-> call.generator,
   steps |-> call.steps, file |-> <<>>, request |-> <<>>, http |-> <<>>,
   doc |-> <<>>, chunk_size |-> 0, chunks |-> <<>>,
   hits |-> <<>>, results |-> <<>>, context_docs |-> <<>>, prompt |-> <<>>]

\* A task of the event loop: a process_and_respond coroutine, made by
\* asyncio.create_task.  pc is where it stands, query its argument,
\* similar_query and response the locals of _get_cached_response and
\* answer_question with these names (None is <<>>), message what it is about
\* to send, before the dict as the cache operation it is in found it.
Task(pc, query, similar_query, response, message, before) ==
  [pc |-> pc, query |-> query, similar_query |-> similar_query,
   response |-> response, message |-> message, before |-> before]

IdleTask == Task("idle", "", <<>>, <<>>, "", <<>>)

Tasks == 1..MaxTasks

\* the webhook requests the model follows
MaxWebhooks == 1

Webhooks == 1..MaxWebhooks

\* a request that has not arrived
NoWebhook == [pc |-> "none"]

\* the constructor, but for the prompt template
InitPipeline ==
  /\ pipeline \in {"rag", "xai"}
  /\ response_cache = <<>>
  /\ now = 0
  /\ tasks = [t \in Tasks |-> IdleTask]
  /\ running = 0
  /\ qa_cache = <<>>
  /\ webhooks = [w \in Webhooks |-> NoWebhook]
  /\ last = Last("init", "", <<>>, <<>>, Call("return", <<>>, <<>>, 0, "none", 0, "none"))

\* the constructor with a template file in place
Init ==
  /\ InitPipeline
  /\ prompt_template = _load_prompt_template(TextFile("Template one: {context} {query}"))

\* time passes
Tick ==
  /\ now < MaxTime
  /\ now' = now + 1
  /\ UNCHANGED <<tasks, running, qa_cache, webhooks, prompt_template, pipeline, response_cache, last>>

CacheResponse(query, response) ==
  /\ response_cache' = _cache_response(response_cache, query, response, now)
  /\ last' = Last("store", query, <<response>>, response_cache,
                  Call("return", <<>>, <<>>, 0, "none", 0, "none"))
  /\ UNCHANGED <<tasks, running, qa_cache, webhooks, prompt_template, pipeline, now>>

lookup_call(r) == Call(r.outcome, r.value, <<>>, 0, "none", 0, "none")

GetCachedResponse(query) ==
  /\ last' = Last("lookup", query, <<>>, response_cache,
                  lookup_call(_get_cached_response(response_cache, query)))
  /\ response_cache' = dict_after_get_cached_response(response_cache, query)
  /\ UNCHANGED <<tasks, running, qa_cache, webhooks, prompt_template, pipeline, now>>

ClearCache ==
  /\ response_cache' = clear_cache(response_cache)
  /\ last' = Last("clear", "", <<>>, response_cache,
                  Call("return", <<>>, <<>>, 0, "none", 0, "none"))
  /\ UNCHANGED <<tasks, running, qa_cache, webhooks, prompt_template, pipeline, now>>

\* An input the call does not read (the gateway after a cache hit, the
\* generator when nothing is generated) is fixed to the first of its set,
\* so that one run of the code is one step.
NoGateway == [raises |-> TRUE, results |-> <<>>]

AnswerQuestionRAG(query, gateway, generator) ==
  /\ pipeline = "rag"
  /\ \E call \in {rag_answer_question(response_cache, query, gateway, generator, now)} :
         /\ call.searches = 0 => gateway = NoGateway
         /\ call.generations = 0 => generator = "ok"
         /\ response_cache' = call.cache
         /\ last' = [Last("answer", query, <<>>, response_cache, call) EXCEPT
                       !.results = gateway.results,
                       !.context_docs = retrieve_context(gateway.results),
                       !.prompt = IF call.generations = 1
                                  THEN <<build_prompt(prompt_template,
                                                      retrieve_context(gateway.results))>>
                                  ELSE <<>>]
  /\ UNCHANGED <<tasks, running, qa_cache, webhooks, prompt_template, pipeline, now>>

AnswerQuestionXAI(query, generator) ==
  /\ pipeline = "xai"
  /\ \E call \in {xai_answer_question(response_cache, query, generator, now)} :
         /\ call.generations = 0 => generator = "ok"
         /\ response_cache' = call.cache
         /\ last' = [Last("answer", query, <<>>, response_cache, call) EXCEPT
                       !.prompt = IF call.generations = 1 THEN <<xai_prompt>> ELSE <<>>]
  /\ UNCHANGED <<tasks, running, qa_cache, webhooks, prompt_template, pipeline, now>>

\* The queries handed to _cache_response directly, and to answer_question.
StoredQueries == {QueryA, QueryAVariant, QueryB, QueryC, QueryH}

AnswerQueries == {QueryA, QueryAVariant, QueryH}

Store == \E query \in StoredQueries, response \in Responses : CacheResponse(query, response)

Lookup == \E query \in Queries : GetCachedResponse(query)

AnswerRAG ==
  \E query \in AnswerQueries, gateway \in GatewayOutcomes, generator \in GeneratorOutcomes("rag") :
    AnswerQuestionRAG(query, gateway, generator)

AnswerXAI ==
  \E query \in AnswerQueries, generator \in GeneratorOutcomes("xai") :
    AnswerQuestionXAI(query, generator)

\* The pipeline in use: answer_question and clear_cache.
Next == AnswerRAG \/ AnswerXAI \/ ClearCache \/ Tick

Spec == Init /\ [][Next]_vars

\* The Response Cache driven directly: _cache_response, _get_cached_response
\* and clear_cache.
NextCache == Store \/ Lookup \/ ClearCache \/ Tick

SpecCache == Init /\ [][NextCache]_vars

\* Every operation together, over fewer inputs: one response for the direct
\* store, a generator that succeeds or times out, a clock that stands still.
MixedQueries == {QueryA, QueryB, QueryC, QueryH}

MixedGenerator == {"ok", "timeout"}

StoreMixed ==
  \E query \in MixedQueries : CacheResponse(query, AnswerPayload("P1", <<>>, 0))

LookupMixed == \E query \in MixedQueries : GetCachedResponse(query)

AnswerRAGMixed ==
  \E query \in MixedQueries, gateway \in GatewayOutcomes, generator \in MixedGenerator :
    AnswerQuestionRAG(query, gateway, generator)

AnswerXAIMixed ==
  \E query \in MixedQueries, generator \in MixedGenerator :
    AnswerQuestionXAI(query, generator)

NextMixed ==
  StoreMixed \/ LookupMixed \/ ClearCache \/ AnswerRAGMixed \/ AnswerXAIMixed

SpecMixed == Init /\ [][NextMixed]_vars

\* The pipeline in use with queries that are near to each other: the cache
\* is written by answer_question only.
NearQueries == {QueryA, QueryH, QueryHVariant}

AnswerRAGNear ==
  \E query \in NearQueries, gateway \in GatewayOutcomes, generator \in MixedGenerator :
    AnswerQuestionRAG(query, gateway, generator)

AnswerXAINear ==
  \E query \in NearQueries, generator \in MixedGenerator :
    AnswerQuestionXAI(query, generator)

NextNear == AnswerRAGNear \/ AnswerXAINear

SpecNear == Init /\ [][NextNear]_vars

\* The prompt template: the constructor loads whatever file it finds, and
\* the file watcher or the /reload-prompt endpoint calls
\* reload_prompt_template between the calls of answer_question.
ReloadPromptTemplate(file) ==
  /\ prompt_template' = reload_prompt_template(prompt_template, file)
  /\ last' = [Last("reload", "", <<>>, response_cache,
                   Call("return", <<>>, <<>>, 0, "none", 0, "none")) EXCEPT
                !.file = file]
  /\ UNCHANGED <<tasks, running, qa_cache, webhooks, pipeline, response_cache, now>>

Reload == \E file \in TemplateFiles : ReloadPromptTemplate(file)

InitTemplate ==
  /\ InitPipeline
  /\ \E file \in TemplateFiles : prompt_template = _load_prompt_template(file)

NextTemplate == Reload \/ AnswerRAGMixed \/ AnswerXAIMixed

SpecTemplate == InitTemplate /\ [][NextTemplate]_vars

(***************************************************************************)
(* The SQLite answer cache of cache_manager.py: the table qa_cache, in the *)
(* order of its rows.                                                      *)
(***************************************************************************)
\* The attributes of a RecipeCache instance that can be called: the defs of
\* the class body.  The def of cache_answer is at the left margin, which
\* ends the class body: it is a function of the module, and the defs after
\* it are local to it.
RecipeCacheMethods == {"__init__", "_create_tables", "_hash_query", "get_cached_answer"}

\* Python values of the sources argument: None or a list
PyNone == [type |-> "NoneType", value |-> <<>>]

PyList(items) == [type |-> "list", value |-> items]

SwordSource == [title |-> "Diamond Sword", url |-> "http://test.com"]

SourcesValues == {PyNone, PyList(<<>>), PyList(<<SwordSource>>)}

\* the truth value of None or a list
truthy(v) == v.type # "NoneType" /\ v.value # <<>>

\* json.loads of the texts json.dumps gives
JsonTable ==
  ("[]" :> PyList(<<>>)) @@
  ("[{\"title\": \"Diamond Sword\", \"url\": \"http://test.com\"}]" :> PyList(<<SwordSource>>))

json_loads(s) == JsonTable[s]

json_dumps(v) == CHOOSE s \in DOMAIN JsonTable : JsonTable[s] = v

\* the value of the column sources: NULL or a text
SqlNull == [type |-> "NULL", value |-> ""]

SqlText(s) == [type |-> "TEXT", value |-> s]

Row(query_hash, query_text, answer, sources, access_count) ==
  [query_hash |-> query_hash, query_text |-> query_text, answer |-> answer,
   sources |-> sources, access_count |-> access_count]

\* _hash_query: hashlib.md5(query.lower().strip().encode()).hexdigest()
_hash_query(query) == md5_hexdigest(normalize(query))

\* what a call on the table gives: the value returned, or the exception,
\* and the table after it
Sql(outcome, value, table) == [outcome |-> outcome, value |-> value, table |-> table]

\* get_cached_answer: SELECT ... WHERE query_hash = ?, fetchone, and on a
\* row UPDATE access_count = access_count + 1.  <<>> is None.
fetchone(table, query_hash) ==
  table[CHOOSE i \in DOMAIN table : table[i].query_hash = query_hash]

\* A faulty variant of get_cached_answer: it returns the access_count it
\* read, not the one it wrote.
get_cached_answer_count_read(table, query) ==
  IF \E i \in DOMAIN table : table[i].query_hash = _hash_query(query)
  THEN Sql("return",
           <<[answer |-> fetchone(table, _hash_query(query)).answer,
              sources |-> IF fetchone(table, _hash_query(query)).sources.type = "TEXT"
                          THEN json_loads(fetchone(table, _hash_query(query)).sources.value)
                          ELSE PyList(<<>>),
              cached |-> TRUE,
              access_count |-> fetchone(table, _hash_query(query)).access_count]>>,
           [i \in DOMAIN table |->
              IF table[i].query_hash = _hash_query(query)
              THEN [table[i] EXCEPT !.access_count = @ + 1]
              ELSE table[i]])
  ELSE Sql("return", <<>>, table)

get_cached_answer(table, query) ==
  IF \E i \in DOMAIN table : table[i].query_hash = _hash_query(query)
  THEN Sql("return",
           <<[answer |-> fetchone(table, _hash_query(query)).answer,
              sources |-> IF fetchone(table, _hash_query(query)).sources.type = "TEXT"
                          THEN json_loads(fetchone(table, _hash_query(query)).sources.value)
                          ELSE PyList(<<>>),
              cached |-> TRUE,
              access_count |-> fetchone(table, _hash_query(query)).access_count + 1]>>,
           [i \in DOMAIN table |->
              IF table[i].query_hash = _hash_query(query)
              THEN [table[i] EXCEPT !.access_count = @ + 1]
              ELSE table[i]])
  ELSE Sql("return", <<>>, table)

other_hash(row, query_hash) == row.query_hash # query_hash

\* the function cache_answer of the module: INSERT OR REPLACE, which deletes
\* the row of the same query_hash and inserts a new one, access_count 0
cache_answer(table, query, answer, sources) ==
  Sql("return", <<>>,
      Append(SelectSeq(table, LAMBDA row : other_hash(row, _hash_query(query))),
             Row(_hash_query(query), query, answer,
                 IF truthy(sources) THEN SqlText(json_dumps(sources)) ELSE SqlNull,
                 0)))

\* cache.cache_answer(query, answer, sources): the attribute is looked up
\* on the instance and its class
call_cache_answer(methods, table, query, answer, sources) ==
  IF "cache_answer" \in methods
  THEN cache_answer(table, query, answer, sources)
  ELSE Sql("AttributeError", <<>>, table)

MaxAccess == 2

RecipeQueries == {QueryA, QueryAVariant, QueryB}

RecipeAnswers == {"Test answer for diamond sword", "Another answer"}

\* the arguments and the outcome of a call on the answer cache
LastSql(op, query, answer, sources, sql) ==
  [Last(op, query, <<[answer |-> answer, sources |-> sources]>>, response_cache,
        Call("return", <<>>, <<>>, 0, "none", 0, "none")) EXCEPT
     !.outcome = sql.outcome, !.value = sql.value]

\* self.cache.cache_answer(query, answer, sources), as test_cache_storage
\* and the __main__ block of cache_manager.py call it
CacheAnswerMethod(query, answer, sources) ==
  /\ \E sql \in {call_cache_answer(RecipeCacheMethods, qa_cache, query, answer, sources)} :
        /\ qa_cache' = sql.table
        /\ last' = LastSql("cache_answer", query, answer, sources, sql)
  /\ UNCHANGED <<tasks, running, webhooks, prompt_template, pipeline, response_cache, now>>

\* cache_manager.cache_answer(cache, query, answer, sources)
CacheAnswerFunction(query, answer, sources) ==
  /\ \E sql \in {cache_answer(qa_cache, query, answer, sources)} :
        /\ qa_cache' = sql.table
        /\ last' = LastSql("cache_manager.cache_answer", query, answer, sources, sql)
  /\ UNCHANGED <<tasks, running, webhooks, prompt_template, pipeline, response_cache, now>>

\* cache.get_cached_answer(query)
GetCachedAnswer(query) ==
  /\ \A i \in DOMAIN qa_cache :
        qa_cache[i].query_hash = _hash_query(query) => qa_cache[i].access_count < MaxAccess
  /\ \E sql \in {get_cached_answer(qa_cache, query)} :
        /\ qa_cache' = sql.table
        /\ last' = LastSql("get_cached_answer", query, "", PyNone, sql)
  /\ UNCHANGED <<tasks, running, webhooks, prompt_template, pipeline, response_cache, now>>

NextRecipe ==
  \/ \E query \in RecipeQueries, answer \in RecipeAnswers, sources \in SourcesValues :
        CacheAnswerMethod(query, answer, sources)
  \/ \E query \in RecipeQueries, answer \in RecipeAnswers, sources \in SourcesValues :
        CacheAnswerFunction(query, answer, sources)
  \/ \E query \in RecipeQueries : GetCachedAnswer(query)

SpecRecipe == Init /\ [][NextRecipe]_vars

(***************************************************************************)
(* The webhook of the bot (bot/api.py): webhook_handler answers a request  *)
(* and makes the process_and_respond task, whose calls on Nextcloud Talk   *)
(* are kept in webhooks.  None is <<>>, a value v that is there is <<v>>.   *)
(***************************************************************************)
BodyActivity ==
  "{\"object\": {\"content\": \"{\\\"message\\\": \\\"hey craft a diamond sword\\\"}\"}, \"target\": {\"id\": \"tok1\"}, \"actor\": {\"name\": \"Steve\", \"id\": \"users/steve\"}}"

BodyActivityBot ==
  "{\"object\": {\"content\": \"{\\\"message\\\": \\\"generated answer\\\"}\"}, \"target\": {\"id\": \"tok1\"}, \"actor\": {\"name\": \"Mincrafter\", \"id\": \"bots/Minecraft Bot\"}}"

BodyLegacy ==
  "{\"message\": \"3e2992c982681fcdc8f73e8ccf8a571c\", \"token\": \"tok1\", \"actor_id\": \"steve\", \"actor_displayname\": \"Steve\"}"

BodyLegacyBot ==
  "{\"message\": \"generated answer\", \"token\": \"tok1\", \"actor_id\": \"bot\", \"actor_displayname\": \"minecraft_bot\"}"

BodyNoToken ==
  "{\"message\": \"craft a diamond sword\"}"

BodyNoMessage ==
  "{\"token\": \"tok1\"}"

BodyNotJson ==
  "message=craft"

\* hmac.new(secret, random_header + raw_body, hashlib.sha256).hexdigest()
HmacTable ==
  (<<"", "r1", BodyActivity>> :> "e480cb1f35e657f918149c35641c9a16805a3af9f89e6513000ef98aa0cdc684") @@
  (<<"", "r1", BodyActivityBot>> :> "08be14e895ca5877f71f79a710aec333b4fc0ef6d580fb5bb726761d95d9fdaf") @@
  (<<"", "r1", BodyLegacy>> :> "4b02baa3e86aa35beb86addd9eeaaf72031c668b351306218785ea9f07aec99d") @@
  (<<"", "r1", BodyLegacyBot>> :> "8065a363a572c513c06edbc8bc7765bf12f1e0e705ff5273f7fbadde060b8973") @@
  (<<"", "r1", BodyNoToken>> :> "a661ff7e1b8818975c5ad04989dfb390a217a5a601de6456d703b14a8ef5c242") @@
  (<<"", "r1", BodyNoMessage>> :> "44ac73f86435c2defed6535f512ded91244a5a764877f16473a75b030df385f1") @@
  (<<"", "r1", BodyNotJson>> :> "8d9c0c864118ea29c89fe775a4b0b7cb47c14001300498d51af5504423875bb9") @@
  (<<"s3cret", "r1", BodyActivity>> :> "b87cad0a5fb90ea83f60dd1314565f4bd3d54a3eb5ef8a937a62644bfec8db54") @@
  (<<"s3cret", "r1", BodyActivityBot>> :> "772de4f73579f7843e49d511896123c71a24ec4ce8ddb0a667344f44df0fe0fd") @@
  (<<"s3cret", "r1", BodyLegacy>> :> "5c8f98db46a1358be80f3cef1e4472c09375c748449287c07cba92ffb77ef0bf") @@
  (<<"s3cret", "r1", BodyLegacyBot>> :> "2ca32ccb54522553626c494b89ccdd9374f83628482ff211e1b5eb4cad100960") @@
  (<<"s3cret", "r1", BodyNoToken>> :> "03f962476e2e438dcc816fcbd411966cb9034ea621acfcbcf227588a6d150fc9") @@
  (<<"s3cret", "r1", BodyNoMessage>> :> "5bda08384850fd6a447ca590d3af8f8fa2a3c51db8d7bf89222e81e08a21e838") @@
  (<<"s3cret", "r1", BodyNotJson>> :> "98ce2cfda4a3f41ba504332f6efb2b624597cf9f322df9c5e796f7431cc974d4")

\* signature_header.lower().strip()
ProvidedTable ==
  (" 03F962476E2E438DCC816FCBD411966CB9034EA621ACFCBCF227588A6D150FC9 " :> "03f962476e2e438dcc816fcbd411966cb9034ea621acfcbcf227588a6d150fc9") @@
  (" 08BE14E895CA5877F71F79A710AEC333B4FC0EF6D580FB5BB726761D95D9FDAF " :> "08be14e895ca5877f71f79a710aec333b4fc0ef6d580fb5bb726761d95d9fdaf") @@
  (" 2CA32CCB54522553626C494B89CCDD9374F83628482FF211E1B5EB4CAD100960 " :> "2ca32ccb54522553626c494b89ccdd9374f83628482ff211e1b5eb4cad100960") @@
  (" 44AC73F86435C2DEFED6535F512DED91244A5A764877F16473A75B030DF385F1 " :> "44ac73f86435c2defed6535f512ded91244a5a764877f16473a75b030df385f1") @@
  (" 4B02BAA3E86AA35BEB86ADDD9EEAAF72031C668B351306218785EA9F07AEC99D " :> "4b02baa3e86aa35beb86addd9eeaaf72031c668b351306218785ea9f07aec99d") @@
  (" 5BDA08384850FD6A447CA590D3AF8F8FA2A3C51DB8D7BF89222E81E08A21E838 " :> "5bda08384850fd6a447ca590d3af8f8fa2a3c51db8d7bf89222e81e08a21e838") @@
  (" 5C8F98DB46A1358BE80F3CEF1E4472C09375C748449287C07CBA92FFB77EF0BF " :> "5c8f98db46a1358be80f3cef1e4472c09375c748449287c07cba92ffb77ef0bf") @@
  (" 772DE4F73579F7843E49D511896123C71A24EC4CE8DDB0A667344F44DF0FE0FD " :> "772de4f73579f7843e49d511896123c71a24ec4ce8ddb0a667344f44df0fe0fd") @@
  (" 8065A363A572C513C06EDBC8BC7765BF12F1E0E705FF5273F7FBADDE060B8973 " :> "8065a363a572c513c06edbc8bc7765bf12f1e0e705ff5273f7fbadde060b8973") @@
  (" 8D9C0C864118EA29C89FE775A4B0B7CB47C14001300498D51AF5504423875BB9 " :> "8d9c0c864118ea29c89fe775a4b0b7cb47c14001300498d51af5504423875bb9") @@
  (" 98CE2CFDA4A3F41BA504332F6EFB2B624597CF9F322DF9C5E796F7431CC974D4 " :> "98ce2cfda4a3f41ba504332f6efb2b624597cf9f322df9c5e796f7431cc974d4") @@
  (" A661FF7E1B8818975C5AD04989DFB390A217A5A601DE6456D703B14A8EF5C242 " :> "a661ff7e1b8818975c5ad04989dfb390a217a5a601de6456d703b14a8ef5c242") @@
  (" B87CAD0A5FB90EA83F60DD1314565F4BD3D54A3EB5EF8A937A62644BFEC8DB54 " :> "b87cad0a5fb90ea83f60dd1314565f4bd3d54a3eb5ef8a937a62644bfec8db54") @@
  (" E480CB1F35E657F918149C35641C9A16805A3AF9F89E6513000EF98AA0CDC684 " :> "e480cb1f35e657f918149c35641c9a16805a3af9f89e6513000ef98aa0cdc684") @@
  ("03f962476e2e438dcc816fcbd411966cb9034ea621acfcbcf227588a6d150fc9" :> "03f962476e2e438dcc816fcbd411966cb9034ea621acfcbcf227588a6d150fc9") @@
  ("08be14e895ca5877f71f79a710aec333b4fc0ef6d580fb5bb726761d95d9fdaf" :> "08be14e895ca5877f71f79a710aec333b4fc0ef6d580fb5bb726761d95d9fdaf") @@
  ("2ca32ccb54522553626c494b89ccdd9374f83628482ff211e1b5eb4cad100960" :> "2ca32ccb54522553626c494b89ccdd9374f83628482ff211e1b5eb4cad100960") @@
  ("44ac73f86435c2defed6535f512ded91244a5a764877f16473a75b030df385f1" :> "44ac73f86435c2defed6535f512ded91244a5a764877f16473a75b030df385f1") @@
  ("4b02baa3e86aa35beb86addd9eeaaf72031c668b351306218785ea9f07aec99d" :> "4b02baa3e86aa35beb86addd9eeaaf72031c668b351306218785ea9f07aec99d") @@
  ("5bda08384850fd6a447ca590d3af8f8fa2a3c51db8d7bf89222e81e08a21e838" :> "5bda08384850fd6a447ca590d3af8f8fa2a3c51db8d7bf89222e81e08a21e838") @@
  ("5c8f98db46a1358be80f3cef1e4472c09375c748449287c07cba92ffb77ef0bf" :> "5c8f98db46a1358be80f3cef1e4472c09375c748449287c07cba92ffb77ef0bf") @@
  ("772de4f73579f7843e49d511896123c71a24ec4ce8ddb0a667344f44df0fe0fd" :> "772de4f73579f7843e49d511896123c71a24ec4ce8ddb0a667344f44df0fe0fd") @@
  ("8065a363a572c513c06edbc8bc7765bf12f1e0e705ff5273f7fbadde060b8973" :> "8065a363a572c513c06edbc8bc7765bf12f1e0e705ff5273f7fbadde060b8973") @@
  ("8d9c0c864118ea29c89fe775a4b0b7cb47c14001300498d51af5504423875bb9" :> "8d9c0c864118ea29c89fe775a4b0b7cb47c14001300498d51af5504423875bb9") @@
  ("98ce2cfda4a3f41ba504332f6efb2b624597cf9f322df9c5e796f7431cc974d4" :> "98ce2cfda4a3f41ba504332f6efb2b624597cf9f322df9c5e796f7431cc974d4") @@
  ("a661ff7e1b8818975c5ad04989dfb390a217a5a601de6456d703b14a8ef5c242" :> "a661ff7e1b8818975c5ad04989dfb390a217a5a601de6456d703b14a8ef5c242") @@
  ("b87cad0a5fb90ea83f60dd1314565f4bd3d54a3eb5ef8a937a62644bfec8db54" :> "b87cad0a5fb90ea83f60dd1314565f4bd3d54a3eb5ef8a937a62644bfec8db54") @@
  ("deadbeef" :> "deadbeef") @@
  ("e480cb1f35e657f918149c35641c9a16805a3af9f89e6513000ef98aa0cdc684" :> "e480cb1f35e657f918149c35641c9a16805a3af9f89e6513000ef98aa0cdc684")

\* the header a signer puts out in upper case and with blanks around it
Shouted(signature) ==
  CHOOSE h \in DOMAIN ProvidedTable : h # signature /\ ProvidedTable[h] = signature

\* verify_signature, with settings.shared_secret ("" when none is set)
verify_signature(raw_body, signature_header, random_header, shared_secret) ==
  IF signature_header = "" THEN TRUE
  ELSE IF shared_secret = "" THEN TRUE
  ELSE ProvidedTable[signature_header] = HmacTable[<<shared_secret, random_header, raw_body>>]

\* json.loads(raw_body): the keys webhook_handler reads; content is the
\* message of json.loads(data["object"]["content"])
NoData ==
  [valid |-> TRUE, content |-> <<>>, target_id |-> <<>>, actor |-> <<>>,
   message |-> <<>>, token |-> <<>>, actor_id |-> <<>>, actor_displayname |-> <<>>]

JsonBodies ==
  (BodyActivity :> [NoData EXCEPT !.content = <<"hey craft a diamond sword">>,
                                  !.target_id = <<"tok1">>,
                                  !.actor = <<[name |-> <<"Steve">>, id |-> <<"users/steve">>]>>]) @@
  (BodyActivityBot :> [NoData EXCEPT !.content = <<"generated answer">>,
                                     !.target_id = <<"tok1">>,
                                     !.actor = <<[name |-> <<"Mincrafter">>,
                                                  id |-> <<"bots/Minecraft Bot">>]>>]) @@
  (BodyLegacy :> [NoData EXCEPT !.message = <<QueryH>>, !.token = <<"tok1">>,
                                !.actor_id = <<"steve">>,
                                !.actor_displayname = <<"Steve">>]) @@
  (BodyLegacyBot :> [NoData EXCEPT !.message = <<"generated answer">>, !.token = <<"tok1">>,
                                   !.actor_id = <<"bot">>,
                                   !.actor_displayname = <<"minecraft_bot">>]) @@
  (BodyNoToken :> [NoData EXCEPT !.message = <<QueryA>>]) @@
  (BodyNoMessage :> [NoData EXCEPT !.token = <<"tok1">>]) @@
  (BodyNotJson :> [NoData EXCEPT !.valid = FALSE])

\* dict.get(key, default)
get(field, default) == IF field = <<>> THEN default ELSE field[1]

\* actor_id.endswith("Minecraft Bot"), of the actor ids of JsonBodies
endswith_Minecraft_Bot(actor_id) == actor_id \in {"bots/Minecraft Bot"}

\* clean_message, of the messages of JsonBodies: no mention of the bot in
\* them, a leading "hey " is cut
CleanTable ==
  ("hey craft a diamond sword" :> QueryA) @@ (QueryA :> QueryA) @@ (QueryH :> QueryH) @@
  ("generated answer" :> "generated answer")

clean_message(message) == CleanTable[message]

\* what requests.post of send_thinking_message comes to
ThinkingOutcomes == {"201", "201 without id", "500", "error"}

\* send_thinking_message: the id of the message, or None
send_thinking_message(outcome) == IF outcome = "201" THEN <<101>> ELSE <<>>

\* a webhook request: body and headers, and what the bot finds when it
\* handles it (settings.shared_secret, the outcome of the thinking message)
Request(raw_body, signature_header, random_header, shared_secret, thinking_outcome) ==
  [raw_body |-> raw_body, signature_header |-> signature_header,
   random_header |-> random_header, shared_secret |-> shared_secret,
   thinking_outcome |-> thinking_outcome]

\* What the body of the try of webhook_handler comes to: it returns a dict
\* with a status, or raises; steps are the calls it made; thinking and task
\* say whether send_thinking_message and asyncio.create_task were called.
Handled(outcome, status, detail, steps) ==
  [outcome |-> outcome, status |-> status, detail |-> detail, steps |-> steps,
   token |-> "", query |-> "", thinking |-> FALSE, thinking_message_id |-> <<>>,
   task |-> FALSE, raised |-> <<>>]

\* A faulty variant of the self-message check: only the actor id is looked at.
webhook_respond_id_only(message, token, actor_id, actor_name, thinking_outcome) ==
  IF endswith_Minecraft_Bot(actor_id)
  THEN Handled("return", 200, "ignored - bot message",
               <<"verify_signature", "json.loads", "parse">>)
  ELSE [Handled("return", 200, "success",
                <<"verify_signature", "json.loads", "parse", "clean_message",
                  "send_thinking_message", "create_task">>) EXCEPT
          !.token = token, !.query = clean_message(message),
          !.thinking = TRUE,
          !.thinking_message_id = send_thinking_message(thinking_outcome),
          !.task = TRUE]

\* from the self-message check on
webhook_respond(message, token, actor_id, actor_name, thinking_outcome) ==
  IF endswith_Minecraft_Bot(actor_id) \/ actor_name \in {"Mincrafter", "minecraft_bot"}
  THEN Handled("return", 200, "ignored - bot message",
               <<"verify_signature", "json.loads", "parse">>)
  ELSE [Handled("return", 200, "success",
                <<"verify_signature", "json.loads", "parse", "clean_message",
                  "send_thinking_message", "create_task">>) EXCEPT
          !.token = token, !.query = clean_message(message),
          !.thinking = TRUE,
          !.thinking_message_id = send_thinking_message(thinking_outcome),
          !.task = TRUE]

\* from json.loads on
webhook_parse(data, thinking_outcome) ==
  IF ~data.valid
  THEN Handled("raise", 0, "JSONDecodeError", <<"verify_signature", "json.loads">>)
  ELSE IF data.content # <<>>
  THEN IF data.target_id = <<>> \/ data.actor = <<>>
       THEN Handled("raise", 0, "KeyError", <<"verify_signature", "json.loads", "parse">>)
       ELSE webhook_respond(data.content[1], data.target_id[1],
                            get(data.actor[1].id, ""), get(data.actor[1].name, "User"),
                            thinking_outcome)
  ELSE IF data.message = <<>> \/ data.token = <<>>
  THEN Handled("raise", 400, "Missing required fields",
               <<"verify_signature", "json.loads", "parse">>)
  ELSE webhook_respond(data.message[1], data.token[1],
                       get(data.actor_id, ""), get(data.actor_displayname, "User"),
                       thinking_outcome)

\* the body of the try
webhook_try(request) ==
  IF ~verify_signature(request.raw_body, request.signature_header,
                       request.random_header, request.shared_secret)
  THEN Handled("raise", 401, "Invalid signature", <<"verify_signature">>)
  ELSE webhook_parse(JsonBodies[request.raw_body], request.thinking_outcome)

\* except Exception as e: raise HTTPException(status_code=500, ...) from e.
\* HTTPException is an Exception.  raised is the exception of the try.
except_Exception(handled) ==
  IF handled.outcome = "raise"
  THEN [handled EXCEPT !.status = 500,
                       !.raised = <<[status |-> handled.status, detail |-> handled.detail]>>]
  ELSE handled

webhook_handler(request) == except_Exception(webhook_try(request))

\* A call on Nextcloud Talk: the thinking message, a chat message, or the
\* deletion of the message id.
ChatCall(call, message, id) == [call |-> call, message |-> message, id |-> id]

\* An accepted message and its process_and_respond task: pc is where the
\* task stands, calls the calls made for the message so far.
Job(pc, token, query, thinking_message_id, calls) ==
  [pc |-> pc, token |-> token, query |-> query,
   thinking_message_id |-> thinking_message_id, calls |-> calls]

Apology == "Sorry, I had trouble answering that. Try again!"

\* what requests.post and requests.delete come to
ChatOutcomes == {"201", "200", "500", "error"}

\* What an awaited call comes to: raised, or the bool returned.
Awaited(raised, value) == [raised |-> raised, value |-> value]

\* A faulty variant of send_to_nextcloud_fallback: the exception of
\* requests.post is not caught.
send_to_nextcloud_fallback_uncaught(outcome) ==
  IF outcome = "error" THEN Awaited(TRUE, FALSE) ELSE Awaited(FALSE, outcome = "201")

\* send_to_nextcloud_fallback: _send catches every exception
send_to_nextcloud_fallback(outcome) == Awaited(FALSE, outcome = "201")

\* delete_message: _delete catches every exception
delete_message(outcome) == Awaited(FALSE, outcome = "200")

\* POST /webhook
WebhookHandler(w, request) ==
  \E handled \in {webhook_handler(request)} :
    /\ handled.task => webhooks[w].pc \in {"none", "done"}
    /\ webhooks' =
         IF handled.task
         THEN [webhooks EXCEPT ![w] =
                 Job("created", handled.token, handled.query, handled.thinking_message_id,
                     <<ChatCall("thinking", "Thinking...", <<>>)>>)]
         ELSE webhooks
    /\ last' = [Last("webhook", handled.query, <<>>, response_cache,
                     Call(handled.outcome, <<>>, <<>>, 0, "none", 0, "none")) EXCEPT
                  !.steps = handled.steps, !.request = <<request>>,
                  !.http = <<[status |-> handled.status, detail |-> handled.detail,
                              raised |-> handled.raised, thinking |-> handled.thinking,
                              task |-> handled.task]>>]
    /\ UNCHANGED <<tasks, running, qa_cache, prompt_template, pipeline, response_cache, now>>

\* process_and_respond up to its first await: answer_question, and the
\* send of the answer; or the except clause and the send of the apology
ProcessAnswer(w, generator) ==
  /\ webhooks[w].pc = "created"
  /\ \E call \in {xai_answer_question(response_cache, webhooks[w].query, generator, now)} :
       /\ response_cache' = call.cache
       /\ webhooks' =
            [webhooks EXCEPT
               ![w].pc = IF call.outcome = "raise" THEN "apology" ELSE "send",
               ![w].calls =
                 Append(@, ChatCall("send",
                                    IF call.outcome = "raise" THEN Apology
                                    ELSE call.value[1].answer,
                                    <<>>))]
  /\ UNCHANGED <<tasks, running, qa_cache, prompt_template, pipeline, now, last>>

\* the awaited send is over: of the answer, and delete_message is called
\* if there is a thinking message; or of the apology, and the task ends.
\* An exception of the send of the answer is caught by the except clause.
SendOver(w, awaited) ==
  /\ webhooks[w].pc \in {"send", "apology"}
  /\ webhooks' =
       IF webhooks[w].pc = "send" /\ awaited.raised
       THEN [webhooks EXCEPT ![w].pc = "apology",
                             ![w].calls = Append(@, ChatCall("send", Apology, <<>>))]
       ELSE IF webhooks[w].pc = "send" /\ webhooks[w].thinking_message_id # <<>>
       THEN [webhooks EXCEPT ![w].pc = "delete",
                             ![w].calls = Append(@, ChatCall("delete", "",
                                                             webhooks[w].thinking_message_id))]
       ELSE [webhooks EXCEPT ![w].pc = "done"]
  /\ UNCHANGED <<tasks, running, qa_cache, prompt_template, pipeline, response_cache, now, last>>

SendReturns(w, outcome) == SendOver(w, send_to_nextcloud_fallback(outcome))

\* the awaited delete_message is over and the task ends; an exception of it
\* is caught by the except clause
DeleteOver(w, awaited) ==
  /\ webhooks[w].pc = "delete"
  /\ webhooks' =
       IF awaited.raised
       THEN [webhooks EXCEPT ![w].pc = "apology",
                             ![w].calls = Append(@, ChatCall("send", Apology, <<>>))]
       ELSE [webhooks EXCEPT ![w].pc = "done"]
  /\ UNCHANGED <<tasks, running, qa_cache, prompt_template, pipeline, response_cache, now, last>>

DeleteReturns(w, outcome) == DeleteOver(w, delete_message(outcome))

\* the requests: unsigned, signed by the holder of "s3cret" (as the digest
\* or in upper case with blanks), or with another signature, to a bot with
\* or without a shared secret
SignatureHeaders(raw_body) ==
  {"", HmacTable[<<"s3cret", "r1", raw_body>>],
   Shouted(HmacTable[<<"s3cret", "r1", raw_body>>]), "deadbeef"}

Requests ==
  UNION { { Request(raw_body, signature_header, "r1", shared_secret, thinking_outcome) :
              signature_header \in SignatureHeaders(raw_body),
              shared_secret \in {"", "s3cret"},
              thinking_outcome \in ThinkingOutcomes } :
          raw_body \in DOMAIN JsonBodies }

InitBot == Init /\ pipeline = "xai"

NextWebhook == \E w \in Webhooks, request \in Requests : WebhookHandler(w, request)

SpecWebhook == InitBot /\ [][NextWebhook]_vars

\* the messages of users, to a bot without a shared secret
UserRequests ==
  { Request(raw_body, "", "r1", "", thinking_outcome) :
      raw_body \in {BodyActivity, BodyLegacy}, thinking_outcome \in {"201", "error"} }

BotGenerator == {"ok", "timeout"}

NextBot ==
  \E w \in Webhooks :
    \/ \E request \in UserRequests : WebhookHandler(w, request)
    \/ \E generator \in BotGenerator : ProcessAnswer(w, generator)
    \/ \E outcome \in ChatOutcomes : SendReturns(w, outcome)
    \/ \E outcome \in ChatOutcomes : DeleteReturns(w, outcome)

SpecBot == InitBot /\ [][NextBot]_vars

(***************************************************************************)
(* The bot: webhook_handler makes one process_and_respond task per message *)
(* with asyncio.create_task, and the tasks share xai_pipeline and its      *)
(* response_cache.  The event loop runs one coroutine at a time and takes  *)
(* another only where the running one awaits; answer_question is an        *)
(* ordinary function called from the coroutine, so from its first          *)
(* statement to its return (the blocking requests.post included) the loop  *)
(* runs nothing else.  running is the task inside such a stretch, 0 when   *)
(* the loop is free.  The statements of _get_cached_response and           *)
(* _cache_response are steps of their own.                                 *)
(***************************************************************************)
TaskQueries == {QueryA, QueryH, QueryB}

TaskGenerator == {"ok", "timeout"}

\* A faulty variant of the scheduling: every task runs whenever it likes, as
\* threads would.
runnable_preemptive(loop, t) == TRUE

\* the event loop can run the next step of task t
runnable(loop, t) == loop \in {0, t}

\* webhook_handler: asyncio.create_task(process_and_respond(token, query, ..))
Webhook(t, query) ==
  /\ runnable(running, t)
  /\ tasks[t].pc = "idle"
  /\ tasks' = [tasks EXCEPT ![t] = Task("created", query, <<>>, <<>>, "", <<>>)]
  /\ running' = 0
  /\ UNCHANGED <<qa_cache, webhooks, prompt_template, pipeline, response_cache, now, last>>

\* process_and_respond starts: answer_question, _get_cached_response,
\* similar_query = self._find_similar_cached_query(query); on None the call
\* goes on to generate_response and its requests.post
FindSimilar(t) ==
  /\ runnable(running, t)
  /\ pipeline = "xai"
  /\ tasks[t].pc = "created"
  /\ \E similar_query \in {_find_similar_cached_query(response_cache, tasks[t].query)} :
        tasks' = [tasks EXCEPT ![t] =
                    Task(IF similar_query = <<>> THEN "generate" ELSE "index",
                         tasks[t].query, similar_query, <<>>, "", response_cache)]
  /\ running' = t
  /\ UNCHANGED <<qa_cache, webhooks, prompt_template, pipeline, response_cache, now, last>>

\* cached_item = self.response_cache[cache_key]; return cached_item["response"]
\* and answer_question returns it, or KeyError and process_and_respond's
\* except clause; either way the task then awaits send_to_nextcloud_fallback
IndexCache(t) ==
  /\ runnable(running, t)
  /\ tasks[t].pc = "index"
  /\ \E r \in {cached_item_response(response_cache, tasks[t].similar_query)} :
        tasks' = [tasks EXCEPT ![t] =
                    IF r.outcome = "raise"
                    THEN Task("send", "", <<>>, <<>>,
                              "Sorry, I had trouble answering that. Try again!", <<>>)
                    ELSE Task("send", "", <<>>, <<>>, r.value[1].answer, <<>>)]
  /\ running' = 0
  /\ UNCHANGED <<qa_cache, webhooks, prompt_template, pipeline, response_cache, now, last>>

\* requests.post of generate_response returns; response = {...};
\* _cache_response begins
GenerateReturns(t, generator) ==
  /\ runnable(running, t)
  /\ tasks[t].pc = "generate"
  /\ tasks' = [tasks EXCEPT ![t] =
                 Task("pop", tasks[t].query, <<>>,
                      <<AnswerPayload(generate_response("xai", generator), <<>>, 0)>>,
                      "", response_cache)]
  /\ running' = t
  /\ UNCHANGED <<qa_cache, webhooks, prompt_template, pipeline, response_cache, now, last>>

\* self.response_cache.pop(cache_key, None)
PopKey(t) ==
  /\ runnable(running, t)
  /\ tasks[t].pc = "pop"
  /\ response_cache' = pop(response_cache, _get_cache_key(tasks[t].query))
  /\ tasks' = [tasks EXCEPT ![t].pc = "assign"]
  /\ running' = t
  /\ UNCHANGED <<qa_cache, webhooks, prompt_template, pipeline, now, last>>

\* self.response_cache[cache_key] = {...}
AssignEntry(t) ==
  /\ runnable(running, t)
  /\ tasks[t].pc = "assign"
  /\ response_cache' = Append(response_cache,
                              Entry(_get_cache_key(tasks[t].query), tasks[t].query,
                                    tasks[t].response[1], now))
  /\ tasks' = [tasks EXCEPT ![t].pc = "evict"]
  /\ running' = t
  /\ UNCHANGED <<qa_cache, webhooks, prompt_template, pipeline, now, last>>

\* one test of the while loop: popitem(last=False), or the loop ends,
\* answer_question returns and the task awaits send_to_nextcloud_fallback
EvictStep(t) ==
  /\ runnable(running, t)
  /\ tasks[t].pc = "evict"
  /\ IF Len(response_cache) > cache_max_size
     THEN /\ response_cache' = Tail(response_cache)
          /\ running' = t
          /\ UNCHANGED tasks
     ELSE /\ tasks' = [tasks EXCEPT ![t] =
                         Task("send", "", <<>>, <<>>, tasks[t].response[1].answer, <<>>)]
          /\ running' = 0
          /\ UNCHANGED response_cache
  /\ UNCHANGED <<qa_cache, webhooks, prompt_template, pipeline, now, last>>

\* the awaited send_to_nextcloud_fallback and delete_message are done and
\* the task ends
Send(t) ==
  /\ runnable(running, t)
  /\ tasks[t].pc = "send"
  /\ tasks' = [tasks EXCEPT ![t] = IdleTask]
  /\ running' = 0
  /\ UNCHANGED <<qa_cache, webhooks, prompt_template, pipeline, response_cache, now, last>>

InitTasks == Init /\ pipeline = "xai"

NextTasks ==
  \E t \in Tasks :
    \/ \E query \in TaskQueries : Webhook(t, query)
    \/ FindSimilar(t)
    \/ IndexCache(t)
    \/ \E generator \in TaskGenerator : GenerateReturns(t, generator)
    \/ PopKey(t)
    \/ AssignEntry(t)
    \/ EvictStep(t)
    \/ Send(t)

SpecTasks == InitTasks /\ [][NextTasks]_vars

\* The Context Selector on its own: search with retrieve_context, and
\* build_prompt.  Neither reads or writes the state of the pipeline, so each
\* is called once, on a pipeline as constructed.  collection.query returns
\* at most MaxHits passages, by increasing distance.
MaxHits == 5

Distances == {5, 10, 20, 30, 40, 90, 95}

PassageTitles == <<"P1", "P2", "P3", "P4", "P5", "P6">>

HitLists ==
  UNION { { [i \in 1..n |-> Hit(PassageTitles[i], d[i], 100)] :
              d \in {e \in [1..n -> Distances] : \A i \in 1..(n - 1) : e[i] <= e[i + 1]} } :
          n \in 0..MaxHits }

RetrieveContext(hits) ==
  /\ last' = [Last("retrieve", "", <<>>, response_cache,
                   Call("return", <<>>, <<>>, 1, "ok", 0, "none")) EXCEPT
                !.hits = hits,
                !.results = search(hits),
                !.context_docs = retrieve_context(search(hits))]
  /\ UNCHANGED <<tasks, running, qa_cache, webhooks, prompt_template, pipeline, response_cache, now>>

ContentLengths == {100, 900, 1781, 1782, 1982, 1983}

ContextDocs ==
  UNION { [1..n -> {Doc("Sword", content, 50) : content \in ContentLengths}] : n \in 0..3 }

BuildPrompt(context_docs) ==
  /\ last' = [Last("build_prompt", "", <<>>, response_cache,
                   Call("return", <<>>, <<>>, 0, "none", 0, "none")) EXCEPT
                !.context_docs = context_docs,
                !.prompt = <<build_prompt(prompt_template, context_docs)>>]
  /\ UNCHANGED <<tasks, running, qa_cache, webhooks, prompt_template, pipeline, response_cache, now>>

Retrieve == last.op = "init" /\ \E hits \in HitLists : RetrieveContext(hits)

Build == last.op = "init" /\ \E context_docs \in ContextDocs : BuildPrompt(context_docs)

InitSelector == Init /\ pipeline = "rag"

NextSelector == Retrieve \/ Build

SpecSelector == InitSelector /\ [][NextSelector]_vars

(***************************************************************************)
(* The chunking of the wiki scraper (data/wiki_scraper.py).  A text is the *)
(* sequence of its characters.                                             *)
(***************************************************************************)
\* text.split() from character i on: words found so far, and the word that
\* is being read
RECURSIVE split_from(_, _, _, _)
split_from(content, i, words, word) ==
  IF i > Len(content)
  THEN IF word = <<>> THEN words ELSE Append(words, word)
  ELSE IF content[i] \in Whitespace
       THEN split_from(content, i + 1, IF word = <<>> THEN words ELSE Append(words, word), <<>>)
       ELSE split_from(content, i + 1, words, Append(word, content[i]))

\* text.split()
split(content) == split_from(content, 1, <<>>, <<>>)

\* " ".join(chunk_words)
RECURSIVE join(_)
join(chunk_words) ==
  IF chunk_words = <<>> THEN <<>>
  ELSE IF Len(chunk_words) = 1 THEN chunk_words[1]
  ELSE chunk_words[1] \o <<" ">> \o join(Tail(chunk_words))

\* words[i : i + chunk_size], i counted from 0
slice(words, i, chunk_size) ==
  SubSeq(words, i + 1, IF i + chunk_size < Len(words) THEN i + chunk_size ELSE Len(words))

Document(title, content, url) == [title |-> title, content |-> content, url |-> url]

\* A faulty variant of chunk_document: the loop steps by chunk_size + 1.
chunk_document_stepping(doc, chunk_size) ==
  [k \in 1..((Len(split(doc.content)) + chunk_size) \div (chunk_size + 1)) |->
     Document(doc.title,
              join(slice(split(doc.content), (k - 1) * (chunk_size + 1), chunk_size)),
              doc.url)]

\* chunk_document: one chunk for each i of range(0, len(words), chunk_size)
chunk_document(doc, chunk_size) ==
  [k \in 1..((Len(split(doc.content)) + chunk_size - 1) \div chunk_size) |->
     Document(doc.title,
              join(slice(split(doc.content), (k - 1) * chunk_size, chunk_size)),
              doc.url)]

MaxContent == 5

MaxChunkSize == 3

Contents_of_documents ==
  UNION { [1..n -> {"w", "x", " ", "\n"}] : n \in 0..MaxContent }

Documents ==
  { Document("Diamond Sword", content, "https://minecraft.wiki/w/Diamond_Sword") :
      content \in Contents_of_documents }

ChunkDocument(doc, chunk_size) ==
  /\ last' = [Last("chunk_document", "", <<>>, response_cache,
                   Call("return", <<>>, <<>>, 0, "none", 0, "none")) EXCEPT
                !.doc = <<doc>>, !.chunk_size = chunk_size,
                !.chunks = chunk_document(doc, chunk_size)]
  /\ UNCHANGED <<tasks, running, qa_cache, webhooks, prompt_template, pipeline, response_cache, now>>

\* chunk_document reads nothing but its arguments: it is called once.
Chunk ==
  /\ last.op = "init"
  /\ \E doc \in Documents, chunk_size \in 1..MaxChunkSize : ChunkDocument(doc, chunk_size)

SpecChunk == Init /\ [][Chunk]_vars

(***************************************************************************)
(* Properties.                                                             *)
(***************************************************************************)
\* The entries of a dict whose stored original query, normalized, has a
\* ratio with the normalized query that reaches the threshold.
StoredSimilar(cache, query) ==
  {i \in 1..Len(cache) : similar(normalize(query), normalize(cache[i].query))}

\* C1: whenever the generator call of answer_question ends in a failure
\* (timeout, transport error, non-200 status, malformed or empty response),
\* the call returns a payload and leaves the cache as it was; the cache is
\* written only after a successful generation or after the no-information
\* determination.
C1_FailuresNeverCached ==
  /\ (last.op = "answer" /\ last.generator \in GeneratorFailures)
       => (last.outcome = "return" /\ last.value # <<>>
           /\ response_cache = last.before)
  /\ (last.op = "answer" /\ response_cache # last.before)
       => (last.generator = "ok"
           \/ (last.generations = 0 /\ last.value = <<NoInformation>>))

\* C2: a lookup of Q that follows a store of (Q, P) with no cache operation
\* in between returns P.
C2_ReflexiveHit ==
  [][(last.op = "store" /\ last'.op = "lookup" /\ last'.query = last.query)
       => (last'.outcome = "return" /\ last'.value = last.response)]_vars

\* C3: when answer_question(Q) has returned a payload and is called again
\* with the same Q, the generator succeeding whenever it is called, the
\* second call returns the same payload and makes no gateway search and no
\* generator call.
C3_AnswerIdempotent ==
  [][(/\ last.op = "answer" /\ last.outcome = "return"
      /\ last.generator \in {"ok", "none"}
      /\ last'.op = "answer" /\ last'.query = last.query
      /\ last'.generator \in {"ok", "none"})
       => (/\ last'.outcome = "return" /\ last'.value = last.value
           /\ last'.searches = 0 /\ last'.generations = 0)]_vars

\* C4: a lookup returns a payload whenever some stored original query has a
\* ratio with the normalized query that reaches the threshold, and the
\* payload is that of such an entry.
C4_FuzzyHitComplete ==
  (last.op = "lookup" /\ StoredSimilar(last.before, last.query) # {})
    => (/\ last.outcome = "return"
        /\ \E i \in StoredSimilar(last.before, last.query) :
              last.value = <<last.before[i].response>>)

\* C5: a lookup returns None whenever no stored original query has a ratio
\* with the normalized query that reaches the threshold, and a payload it
\* returns is that of an entry whose stored original query reaches it.
C5_FuzzyMissSound ==
  last.op = "lookup"
    => (/\ StoredSimilar(last.before, last.query) = {}
             => (last.outcome = "return" /\ last.value = <<>>)
        /\ last.value # <<>>
             => \E i \in StoredSimilar(last.before, last.query) :
                   last.value = <<last.before[i].response>>)

\* C6: the cache never holds more than cache_max_size entries, whatever
\* sequence of store, lookup, clear and answer operations has run.
C6_CapacityInvariant == Len(response_cache) <= cache_max_size

\* A store or an answer has just written a new key into a full cache.
C6_Witness ==
  /\ last.op \in {"store", "answer"}
  /\ Len(last.before) = cache_max_size
  /\ ~has_key(last.before, _get_cache_key(last.query))
  /\ has_key(response_cache, _get_cache_key(last.query))

\* C7: a lookup that returns a payload moves the entry it matched to the
\* most-recently-used end of the cache.
C7_HitRefreshesRecency ==
  (last.op = "lookup" /\ last.value # <<>>)
    => \E i \in 1..Len(last.before) :
         /\ last.value = <<last.before[i].response>>
         /\ response_cache = Append(pop(last.before, last.before[i].key), last.before[i])

\* C8: a store of a query whose key is absent into a cache that holds
\* exactly cache_max_size entries removes the entry at the least-recently-
\* used end and nothing else, keeps the others in their order, puts the new
\* entry at the most-recently-used end and leaves cache_max_size entries.
C8_OldestFirstEviction ==
  (/\ last.op = "store"
   /\ Len(last.before) = cache_max_size
   /\ ~has_key(last.before, _get_cache_key(last.query)))
    => (/\ Len(response_cache) = cache_max_size
        /\ SubSeq(response_cache, 1, cache_max_size - 1) = Tail(last.before)
        /\ ~has_key(response_cache, Head(last.before).key)
        /\ response_cache[cache_max_size].key = _get_cache_key(last.query)
        /\ response_cache[cache_max_size].query = last.query
        /\ <<response_cache[cache_max_size].response>> = last.response)

\* A store has just pushed the oldest entry out of a full cache.
C8_Witness ==
  /\ last.op = "store"
  /\ Len(last.before) = cache_max_size
  /\ ~has_key(last.before, _get_cache_key(last.query))
  /\ ~has_key(response_cache, Head(last.before).key)

\* C9: no operation of the Response Cache raises to its caller.
C9_CacheNeverRaises ==
  last.op \in {"store", "lookup", "clear"} => last.outcome = "return"

\* C10: answer_question never raises: it returns a payload, and when the
\* gateway search fails it has searched once, has not called the generator
\* and has left the cache as it was.
C10_AnswerNeverRaises ==
  last.op = "answer"
    => (/\ last.outcome = "return" /\ last.value # <<>>
        /\ last.gateway = "raises"
             => (/\ last.searches = 1 /\ last.generations = 0
                 /\ response_cache = last.before))

\* the newest entry of the cache is what a call of answer_question that
\* returned a payload stored under its own query
StoredUnderQuery ==
  /\ response_cache # <<>>
  /\ response_cache[Len(response_cache)].key = md5_hexdigest(normalize(last.query))
  /\ response_cache[Len(response_cache)].query = last.query
  /\ <<response_cache[Len(response_cache)].response>> = last.value

\* C11: when the search returns and no passage passes the relevance filter,
\* answer_question returns the no-information payload (no sources,
\* context_used 0) without calling the generator, and the cache holds that
\* payload under the original query.
C11_InsufficientContext ==
  (/\ last.op = "answer" /\ pipeline = "rag"
   /\ last.gateway = "ok" /\ last.context_docs = <<>>)
    => (/\ last.outcome = "return"
        /\ last.value = <<NoInformation>>
        /\ last.value[1].sources = <<>> /\ last.value[1].context_used = 0
        /\ last.generations = 0 /\ last.prompt = <<>>
        /\ StoredUnderQuery)

\* The search returned passages, none passed the filter, and the call
\* returned the no-information payload.
C11_Witness ==
  /\ last.op = "answer" /\ pipeline = "rag"
  /\ last.gateway = "ok" /\ last.results # <<>> /\ last.context_docs = <<>>
  /\ last.value = <<NoInformation>>

\* answer_question missed the cache, retrieved context and generated with
\* success
GeneratedWithSuccess ==
  /\ last.op = "answer" /\ pipeline = "rag"
  /\ last.searches = 1 /\ last.gateway = "ok"
  /\ last.context_docs # <<>> /\ last.generator = "ok"

UnseenQuery == ~has_key(last.before, md5_hexdigest(normalize(last.query)))

\* C12 as stated: after a miss, a retrieval with context and a successful
\* generation, the payload is stored under the key of the original query,
\* once, and the cache has one entry more than before when the key of the
\* query was not in it.
C12_CachesExactlyOnce ==
  GeneratedWithSuccess
    => (/\ StoredUnderQuery
        /\ Cardinality({i \in 1..Len(response_cache) :
                          response_cache[i].key = md5_hexdigest(normalize(last.query))}) = 1
        /\ UnseenQuery => Len(response_cache) = Len(last.before) + 1)

\* C12 as amended: ... and the cache has one entry more than before when the
\* key of the query was not in it and the cache held fewer than
\* cache_max_size entries; a cache that held cache_max_size entries holds
\* cache_max_size entries, the oldest having made room.
C12_CachesOnceUpToCapacity ==
  GeneratedWithSuccess
    => (/\ StoredUnderQuery
        /\ Cardinality({i \in 1..Len(response_cache) :
                          response_cache[i].key = md5_hexdigest(normalize(last.query))}) = 1
        /\ (UnseenQuery /\ Len(last.before) < cache_max_size)
              => Len(response_cache) = Len(last.before) + 1
        /\ (UnseenQuery /\ Len(last.before) = cache_max_size)
              => (/\ Len(response_cache) = cache_max_size
                  /\ SubSeq(response_cache, 1, cache_max_size - 1) = Tail(last.before)))

\* A successful generation for an unseen query has just been cached in a
\* cache that was full.
C12_Witness ==
  /\ GeneratedWithSuccess /\ UnseenQuery
  /\ Len(last.before) = cache_max_size
  /\ StoredUnderQuery

\* a task between the first and the last statement of _get_cached_response
\* or of _cache_response
MidCacheOperation(task) == task.pc \in {"index", "assign", "evict"}

\* a task whose next step is a statement of a cache operation
AtCacheStep(task) == task.pc \in {"created", "index", "pop", "assign", "evict"}

\* C13: while a task is inside a cache operation no other task takes a step
\* of a cache operation; a lookup indexes the dict it searched; a store that
\* ends leaves the dict that _cache_response makes of the dict it found, its
\* entry in it; and outside a store the cache holds at most cache_max_size
\* entries.
C13_CacheOperationsAtomic ==
  [][\A t \in Tasks :
       /\ MidCacheOperation(tasks[t])
            => \A u \in Tasks \ {t} : tasks'[u] # tasks[u] => ~AtCacheStep(tasks[u])
       /\ tasks'[t].pc = "index" => response_cache' = tasks'[t].before
       /\ (tasks[t].pc = "evict" /\ tasks'[t].pc = "send")
            => (/\ response_cache' = _cache_response(tasks[t].before, tasks[t].query,
                                                     tasks[t].response[1], now)
                /\ has_key(response_cache', md5_hexdigest(normalize(tasks[t].query))))
       /\ (\A u \in Tasks : ~MidCacheOperation(tasks'[u]))
            => Len(response_cache') <= cache_max_size]_vars

\* A task is about to evict from a cache over its capacity while another
\* task waits to check the cache.
C13_Witness ==
  \E t \in Tasks, u \in Tasks :
    /\ t # u
    /\ tasks[t].pc = "evict" /\ Len(response_cache) > cache_max_size
    /\ tasks[u].pc = "created"

\* C14: while a task waits in the generate step, a task that is ready to
\* check the cache can take that step.
C14_NonBlockingSuspension ==
  \A t \in Tasks, u \in Tasks :
    (t # u /\ tasks[t].pc = "generate" /\ tasks[u].pc = "created")
      => ENABLED FindSimilar(u)

\* C15: every key of the cache is the digest of the lower-cased, stripped
\* original query of its entry, and no two entries have the same key.
C15_KeyInvariant ==
  /\ \A i \in 1..Len(response_cache) :
       response_cache[i].key
         = MD5Table[text(strip_chars(lower_chars(chars[response_cache[i].query])))]
  /\ \A i \in 1..Len(response_cache), j \in 1..Len(response_cache) :
       response_cache[i].key = response_cache[j].key => i = j

\* A query with capitals or outer whitespace has just been stored over an
\* entry with the same key, and the cache holds a second entry.
C15_Witness ==
  /\ last.op = "store"
  /\ last.query # normalize(last.query)
  /\ has_key(last.before, _get_cache_key(last.query))
  /\ Len(response_cache) = 2
  /\ response_cache[Len(response_cache)].query = last.query

\* the passage that collection.query returned at position i is among those
\* that retrieve_context returned
Kept(i) ==
  \E j \in 1..Len(last.context_docs) : last.context_docs[j].title = last.hits[i].title

\* C16: retrieve_context keeps a passage exactly when 1 minus the distance
\* that the vector search reported for it is greater than 0.1 (and fewer than
\* three such passages come before it).
C16_RelevanceFilter ==
  last.op = "retrieve"
    => \A i \in 1..Len(last.hits) :
         Kept(i) <=> (/\ 100 - last.hits[i].distance > 10
                      /\ Cardinality({k \in 1..(i - 1) : 100 - last.hits[k].distance > 10}) < 3)

\* the positions of the results that passed the relevance test of the code
Passing == {i \in 1..Len(last.results) : 100 - last.results[i].score > 10}

\* C17: retrieve_context returns the first min(3, number of passing results)
\* results that passed the relevance test, in the order of the search, so
\* that no passing result left out is nearer than one returned.
C17_TopNCap ==
  last.op = "retrieve"
    => (/\ Len(last.context_docs)
             = (IF Cardinality(Passing) < 3 THEN Cardinality(Passing) ELSE 3)
        /\ \A j \in 1..Len(last.context_docs) :
             \E i \in Passing :
               /\ Cardinality({k \in Passing : k < i}) = j - 1
               /\ last.context_docs[j] = last.results[i]
        /\ \A i \in Passing :
             Cardinality({k \in Passing : k < i}) >= 3
               => \A j \in 1..Len(last.context_docs) :
                    last.hits[i].distance
                      >= 100 - last.context_docs[j].score)

\* Four results passed the test and three were returned.
C17_Witness ==
  /\ last.op = "retrieve"
  /\ Cardinality(Passing) = 4
  /\ Len(last.context_docs) = 3

\* C18: the context that build_prompt places in the prompt has at most
\* max_context_length characters, labels, separators, a cut block and its
\* "..." included.
C18_ContextBudget ==
  last.op = "build_prompt" => last.prompt[1].context <= max_context_length

\* the number of characters of the formatted blocks of the first n passages
RECURSIVE consumed(_, _)
consumed(context_docs, n) ==
  IF n = 0 THEN 0
  ELSE consumed(context_docs, n - 1) + 8 + 1 + 2 + title_length[context_docs[n].title]
         + 2 + context_docs[n].content

\* the positions at which the blocks so far exceed the budget
Overflowing(context_docs) ==
  {i \in 1..Len(context_docs) : consumed(context_docs, i) > max_context_length}

\* the first of them
FirstOverflow(context_docs) ==
  CHOOSE i \in Overflowing(context_docs) : \A k \in Overflowing(context_docs) : i <= k

\* C19: every passage before the first whose block would take the consumed
\* count over the budget is included whole; that passage is included cut to
\* the remaining budget, with "..." appended, when the remaining budget is
\* greater than 200, and left out otherwise; no passage after it is included.
C19_OverflowRule ==
  last.op = "build_prompt"
    => LET docs == last.context_docs
           parts == last.prompt[1].context_parts
           whole == IF Overflowing(docs) = {} THEN Len(docs) ELSE FirstOverflow(docs) - 1
           remaining == max_context_length - consumed(docs, whole)
       IN  /\ Len(parts) >= whole
           /\ \A i \in 1..whole :
                /\ parts[i].source = i /\ ~parts[i].truncated
                /\ parts[i].length = consumed(docs, i) - consumed(docs, i - 1)
           /\ Overflowing(docs) = {} => Len(parts) = whole
           /\ (Overflowing(docs) # {} /\ remaining > 200)
                => (/\ Len(parts) = whole + 1
                    /\ parts[whole + 1].source = whole + 1
                    /\ parts[whole + 1].truncated
                    /\ parts[whole + 1].length = remaining + 3)
           /\ (Overflowing(docs) # {} /\ remaining <= 200) => Len(parts) = whole

\* A block was cut to the remaining budget and a passage after it was never
\* considered.
C19_Witness ==
  /\ last.op = "build_prompt"
  /\ Len(last.prompt[1].context_parts) = 2
  /\ last.prompt[1].context_parts[2].truncated
  /\ Len(last.context_docs) = 3

\* C20: the sources and the context_used of the payload that answer_question
\* builds describe the passages that build_prompt placed in the context.
C20_SourcesReflectIncluded ==
  (last.op = "answer" /\ pipeline = "rag" /\ last.prompt # <<>>)
    => LET parts == last.prompt[1].context_parts
       IN  /\ last.value[1].context_used = Len(parts)
           /\ Len(last.value[1].sources) = Len(parts)
           /\ \A j \in 1..Len(parts) :
                /\ j <= Len(last.value[1].sources)
                /\ last.value[1].sources[j].title = last.context_docs[parts[j].source].title
                /\ last.value[1].sources[j].url = last.context_docs[parts[j].source].url
                /\ last.value[1].sources[j].relevance = last.context_docs[parts[j].source].score

\* the stored form of a query: its characters lower-cased and stripped
Normalized(query) == text(strip_chars(lower_chars(chars[query])))

\* C23: a store of (Q, P2) when the key of Q is present puts an entry with Q
\* and P2 at the most-recently-used end in place of the old one and leaves
\* the other entries and the size as they were; a lookup of Q that follows
\* returns P2.
C23_RestoreRefreshes ==
  [][/\ (last'.op = "store" /\ has_key(last'.before, _get_cache_key(last'.query)))
          => (/\ Len(response_cache') = Len(last'.before)
              /\ response_cache'[Len(response_cache')].query = last'.query
              /\ <<response_cache'[Len(response_cache')].response>> = last'.response
              /\ SubSeq(response_cache', 1, Len(response_cache') - 1)
                   = pop(last'.before, _get_cache_key(last'.query)))
     /\ (/\ last.op = "store"
         /\ has_key(last.before, _get_cache_key(last.query))
         /\ last'.op = "lookup" /\ last'.query = last.query)
          => (last'.outcome = "return" /\ last'.value = last.response)]_vars

\* queries with the same lower-cased, stripped form have the same key
SameFormSameKey ==
  \A q1 \in Queries, q2 \in Queries :
    Normalized(q1) = Normalized(q2) => _get_cache_key(q1) = _get_cache_key(q2)

\* C24: queries with the same lower-cased, stripped form have the same key,
\* and a store of one right after a store of the other leaves one entry for
\* the two.
C24_KeyNormalization ==
  [][/\ SameFormSameKey
     /\ (/\ last.op = "store" /\ last'.op = "store"
         /\ normalize(last.query) = normalize(last'.query))
          => (/\ Len(response_cache') = Len(response_cache)
              /\ Cardinality({i \in 1..Len(response_cache') :
                                normalize(response_cache'[i].query) = normalize(last.query)}) = 1
              /\ response_cache'[Len(response_cache')].query = last'.query)]_vars

\* Two different queries with the same stored form were stored one after
\* the other and the cache holds one entry.
C24_Witness ==
  /\ last.op = "store"
  /\ last.before # <<>>
  /\ last.before[Len(last.before)].query # last.query
  /\ normalize(last.before[Len(last.before)].query) = normalize(last.query)
  /\ Len(response_cache) = 1

\* C25: after clear_cache the cache is empty, whatever it held, and a lookup
\* in an empty cache returns None.
C25_ClearEmpties ==
  /\ last.op = "clear" => (last.outcome = "return" /\ Len(response_cache) = 0)
  /\ (last.op = "lookup" /\ Len(last.before) = 0)
       => (last.outcome = "return" /\ last.value = <<>>)

\* A full cache has just been cleared.
C25_Witness ==
  /\ last.op = "clear"
  /\ Len(last.before) = cache_max_size
  /\ response_cache = <<>>

\* the place of a step in the order of answer_question
StepOrder ==
  "cache_check" :> 1 @@ "search" :> 2 @@ "select" :> 3 @@ "build_prompt" :> 4
    @@ "generate" :> 5 @@ "store" :> 6

\* C21: the steps of one call of answer_question run in the order cache
\* check, search, select, build_prompt, generate, store, none of them twice;
\* the cache check comes first, the gateway and the generator are called at
\* most once, and the cache is written only by a store that comes last,
\* after the generator has returned when it was called.
C21_LinearOrder ==
  last.op = "answer"
    => (/\ last.steps # <<>> /\ last.steps[1] = "cache_check"
        /\ \A i \in 1..(Len(last.steps) - 1) :
             StepOrder[last.steps[i]] < StepOrder[last.steps[i + 1]]
        /\ last.searches = Cardinality({i \in 1..Len(last.steps) : last.steps[i] = "search"})
        /\ last.generations
             = Cardinality({i \in 1..Len(last.steps) : last.steps[i] = "generate"})
        /\ last.searches <= 1 /\ last.generations <= 1
        /\ response_cache # last.before => last.steps[Len(last.steps)] = "store"
        /\ last.generations > 0
             => (last.steps[Len(last.steps)] = "store"
                 /\ last.steps[Len(last.steps) - 1] = "generate"))

\* A call ran every step: it missed the cache, searched, selected, built the
\* prompt, generated and stored.
C21_Witness ==
  /\ last.op = "answer" /\ pipeline = "rag"
  /\ Len(last.steps) = 6
  /\ last.generator = "timeout"

\* C22: a reload that cannot read the file leaves the template in force, a
\* reload that reads it puts its text in force, and the prompt of every
\* generation is built from the template in force when it runs.
C22_LatestLoadedTemplate ==
  [][/\ (last'.op = "reload" /\ last'.file.kind # "text")
          => prompt_template' = prompt_template
     /\ (last'.op = "reload" /\ last'.file.kind = "text")
          => prompt_template' = last'.file.text
     /\ (last'.op = "answer" /\ last'.generations = 1)
          => last'.prompt[1].template = prompt_template]_vars

\* C26: after cache.cache_answer(q, a, sources) on a RecipeCache instance,
\* get_cached_answer of every query with the lower-cased, stripped form of q
\* returns a result that is not None, with the answer a, the sources stored
\* and cached True.
C26_AnswerCacheRoundTrip ==
  last.op = "cache_answer" =>
    /\ last.outcome = "return"
    /\ \A query \in RecipeQueries :
         normalize(query) = normalize(last.query) =>
           \E sql \in {get_cached_answer(qa_cache, query)} :
              /\ sql.value # <<>>
              /\ sql.value[1].answer = last.response[1].answer
              /\ sql.value[1].sources = last.response[1].sources
              /\ sql.value[1].cached

\* the provided header, in lower case and stripped, is the HMAC-SHA256 of
\* random header and raw body under the shared secret of the bot
ValidSignature(request) ==
  /\ request.signature_header # ""
  /\ ProvidedTable[request.signature_header] =
       HmacTable[<<request.shared_secret, request.random_header, request.raw_body>>]

Verified(request) ==
  verify_signature(request.raw_body, request.signature_header,
                   request.random_header, request.shared_secret)

\* C27: verify_signature returns True only if the signature is valid, and
\* with a shared secret configured a request without a valid signature is
\* neither parsed nor processed.
C27_SignatureGate ==
  last.op = "webhook" =>
    \A request \in {last.request[1]} :
      /\ Verified(request) => ValidSignature(request)
      /\ (request.shared_secret # "" /\ ~ValidSignature(request))
           => /\ \A i \in DOMAIN last.steps : last.steps[i] = "verify_signature"
              /\ ~last.http[1].thinking
              /\ ~last.http[1].task

\* the body is JSON of the legacy format without message or without token
LegacyLacking(request) ==
  /\ JsonBodies[request.raw_body].valid
  /\ JsonBodies[request.raw_body].content = <<>>
  /\ JsonBodies[request.raw_body].message = <<>> \/ JsonBodies[request.raw_body].token = <<>>

\* C28: a request whose signature fails verification is answered with
\* status 401, a legacy request lacking message or token with status 400,
\* and neither sends a thinking message nor makes a task.
C28_RejectionStatus ==
  last.op = "webhook" =>
    \A request \in {last.request[1]} :
      /\ ~Verified(request)
           => last.http[1].status = 401 /\ ~last.http[1].thinking /\ ~last.http[1].task
      /\ (Verified(request) /\ LegacyLacking(request))
           => last.http[1].status = 400 /\ ~last.http[1].thinking /\ ~last.http[1].task

\* C29: when process_and_respond is over for a message whose thinking
\* message was sent, the deletion of that message was called after the
\* send of the reply.
C29_ThinkingMessageCleanup ==
  \A w \in Webhooks :
    (webhooks[w].pc = "done" /\ webhooks[w].thinking_message_id # <<>>)
      => \E i, j \in DOMAIN webhooks[w].calls :
            /\ i < j
            /\ webhooks[w].calls[i].call = "send"
            /\ webhooks[w].calls[j] = ChatCall("delete", "", webhooks[w].thinking_message_id)

Sends(calls) == {i \in DOMAIN calls : calls[i].call = "send"}

\* C30: for an accepted message, no send before answer_question is over and
\* from then on exactly one, of an answer or of the apology; a deletion
\* comes only after the send.
C30_ExactlyOneReply ==
  \A w \in Webhooks :
    webhooks[w].pc # "none" =>
      /\ Cardinality(Sends(webhooks[w].calls)) = IF webhooks[w].pc = "created" THEN 0 ELSE 1
      /\ \A i \in Sends(webhooks[w].calls) :
           webhooks[w].calls[i].message \in
             {Apology} \cup {generate_response("xai", generator) : generator \in BotGenerator}
      /\ \A j \in DOMAIN webhooks[w].calls :
           webhooks[w].calls[j].call = "delete"
             => \E i \in Sends(webhooks[w].calls) : i < j

\* C30: a task is over that sent the answer and then called the deletion
\* of the thinking message
C30_Witness ==
  \E w \in Webhooks :
    /\ webhooks[w].pc = "done"
    /\ Len(webhooks[w].calls) = 3
    /\ webhooks[w].calls[2].call = "send"
    /\ webhooks[w].calls[2].message # Apology
    /\ webhooks[w].calls[3].call = "delete"

\* the actor id and the actor name of the message of a body that is JSON
ActorId(data) ==
  IF data.content # <<>> THEN get(data.actor[1].id, "") ELSE get(data.actor_id, "")

ActorName(data) ==
  IF data.content # <<>> THEN get(data.actor[1].name, "User")
  ELSE get(data.actor_displayname, "User")

\* the body is a message of the bot: its actor id ends with "Minecraft Bot"
\* or its actor name is "Mincrafter" or "minecraft_bot"
BotMessage(request) ==
  /\ JsonBodies[request.raw_body].valid
  /\ JsonBodies[request.raw_body].content # <<>> => JsonBodies[request.raw_body].actor # <<>>
  /\ \/ ActorId(JsonBodies[request.raw_body]) \in {"bots/Minecraft Bot"}
     \/ ActorName(JsonBodies[request.raw_body]) \in {"Mincrafter", "minecraft_bot"}

C32_PackingPrefix ==
  last.op = "build_prompt" =>
    /\ Len(last.prompt[1].context_parts) <= Len(last.context_docs)
    /\ \A k \in DOMAIN last.prompt[1].context_parts :
         /\ last.prompt[1].context_parts[k].source = k
         /\ last.prompt[1].context_parts[k].truncated
              => k = Len(last.prompt[1].context_parts)
         /\ ~last.prompt[1].context_parts[k].truncated
              => last.prompt[1].context_parts[k].length
                   = consumed(last.context_docs, k) - consumed(last.context_docs, k - 1)
    /\ Overflowing(last.context_docs) # {}
         => Len(last.prompt[1].context_parts) <= FirstOverflow(last.context_docs)

\* C32: the second of three passages overflowed the budget and was left
\* out, and the third, which would have fitted, was left out too
C32_Witness ==
  /\ last.op = "build_prompt"
  /\ Len(last.context_docs) = 3
  /\ Len(last.prompt[1].context_parts) = 1
  /\ FirstOverflow(last.context_docs) = 2
  /\ consumed(last.context_docs, 1)
       + (consumed(last.context_docs, 3) - consumed(last.context_docs, 2))
       <= max_context_length

\* key, original query and payload of every entry of a dict
Contents(cache) ==
  { [key |-> cache[i].key, query |-> cache[i].query, response |-> cache[i].response] :
      i \in 1..Len(cache) }

\* C33: a lookup that returns no payload leaves the cache as it was, entries,
\* payloads, timestamps and order; a lookup that returns a payload leaves
\* the keys and the original query and payload of every entry as they were.
C33_LookupFrame ==
  last.op = "lookup" =>
    /\ last.value = <<>> => response_cache = last.before
    /\ last.value # <<>>
         => /\ Len(response_cache) = Len(last.before)
            /\ Contents(response_cache) = Contents(last.before)

\* C33: a lookup returned the payload of one of two entries
C33_Witness ==
  /\ last.op = "lookup"
  /\ last.value # <<>>
  /\ Len(last.before) = 2

\* the entries of a dict under another key than key, in their order
OtherEntries(cache, key) == SelectSeq(cache, LAMBDA entry : entry.key # key)

\* C34: a store leaves the entries under other keys as they were and in
\* their order, but for those it evicts from the least-recently-used end,
\* and the entry it inserts is in the cache after it.
C34_StoreFrame ==
  last.op = "store" =>
    /\ \E n \in 0..Len(OtherEntries(last.before, _get_cache_key(last.query))) :
         OtherEntries(response_cache, _get_cache_key(last.query))
           = SubSeq(OtherEntries(last.before, _get_cache_key(last.query)),
                    n + 1, Len(OtherEntries(last.before, _get_cache_key(last.query))))
    /\ response_cache # <<>>
    /\ response_cache[Len(response_cache)].key = _get_cache_key(last.query)
    /\ response_cache[Len(response_cache)].query = last.query
    /\ <<response_cache[Len(response_cache)].response>> = last.response

\* C34: a store into a full cache evicted the oldest entry, kept the other
\* and inserted its own
C34_Witness ==
  /\ last.op = "store"
  /\ Len(last.before) = cache_max_size
  /\ Len(response_cache) = cache_max_size
  /\ response_cache[1] = last.before[2]
  /\ response_cache[Len(response_cache)].key = _get_cache_key(last.query)

\* C35: the cache being written by answer_question only, no two of its
\* entries have original queries with the same normalized form or with a
\* ratio between their normalized forms that reaches the threshold.
C35_NoNearDuplicates ==
  \A i, j \in 1..Len(response_cache) :
    i < j =>
      /\ normalize(response_cache[i].query) # normalize(response_cache[j].query)
      /\ ~similar(normalize(response_cache[i].query), normalize(response_cache[j].query))

\* the rows of the table qa_cache stored for a query of the normalized form
\* of query
RowsFor(table, query) ==
  {i \in DOMAIN table : normalize(table[i].query_text) = normalize(query)}

\* C36: get_cached_answer of a query with a row adds one to the
\* access_count of that row, changes nothing else and returns the count it
\* stored; of a query without a row it returns None and changes no row; and
\* no two rows are ever of the same normalized query.
C36_AccessCounting ==
  [][/\ last'.op = "get_cached_answer" =>
          /\ Len(qa_cache') = Len(qa_cache)
          /\ \A i \in DOMAIN qa_cache :
               IF i \in RowsFor(qa_cache, last'.query)
               THEN /\ qa_cache'[i] = [qa_cache[i] EXCEPT !.access_count = @ + 1]
                    /\ last'.value # <<>>
                    /\ last'.value[1].access_count = qa_cache'[i].access_count
               ELSE qa_cache'[i] = qa_cache[i]
          /\ RowsFor(qa_cache, last'.query) = {} => last'.value = <<>>
     /\ \A i \in DOMAIN qa_cache' : RowsFor(qa_cache', qa_cache'[i].query_text) = {i}]_vars

\* C36: the row of a query, next to the row of another query, was returned a
\* second time, to a query of another text of the same normalized form
C36_Witness ==
  /\ last.op = "get_cached_answer"
  /\ last.value # <<>>
  /\ last.value[1].access_count = 2
  /\ Len(qa_cache) = 2
  /\ \E i \in DOMAIN qa_cache :
       qa_cache[i].query_text # last.query /\ i \in RowsFor(qa_cache, last.query)

\* the words of the chunks, one after the other
RECURSIVE words_of(_)
words_of(chunks) ==
  IF chunks = <<>> THEN <<>>
  ELSE split(Head(chunks).content) \o words_of(Tail(chunks))

\* C37: every chunk of chunk_document(doc, n) holds between 1 and n words,
\* the words of the chunks in order are the words of the content of doc,
\* every chunk has the title and the url of doc, and a document without
\* words has no chunks.
C37_ChunkingLossless ==
  last.op = "chunk_document" =>
    /\ \A k \in DOMAIN last.chunks :
         /\ Len(split(last.chunks[k].content)) >= 1
         /\ Len(split(last.chunks[k].content)) <= last.chunk_size
         /\ last.chunks[k].title = last.doc[1].title
         /\ last.chunks[k].url = last.doc[1].url
    /\ words_of(last.chunks) = split(last.doc[1].content)
    /\ split(last.doc[1].content) = <<>> => last.chunks = <<>>

\* C37: three words, with blanks and a line end around them, were put in a
\* chunk of two words and a chunk of one
C37_Witness ==
  /\ last.op = "chunk_document"
  /\ last.chunk_size = 2
  /\ Len(split(last.doc[1].content)) = 3
  /\ Len(last.doc[1].content) = 5
  /\ Len(last.chunks) = 2
  /\ Len(split(last.chunks[2].content)) = 1
====
